---------------------------- MODULE Spec2Model ----------------------------
(***************************************************************************)
(* Model of the label editor of src/ZPL_visual_editor.py: the scene of     *)
(* ZPLObject records, the selection, the clipboard slot, the drag gesture, *)
(* the property panel focus and the snapshot-based undo/redo history.      *)
(*                                                                         *)
(* Python references are modelled as positions in the live list           *)
(* self.objects: 0 is None, i in 1..Len(objects) is the object at that     *)
(* position, Stale is a reference to an object that is no longer in the    *)
(* list.  Snapshots are values (copy.deepcopy shares nothing).             *)
(***************************************************************************)
EXTENDS Integers, Sequences, FiniteSets, TLC

\* ------------------------------------------------------------------ bounds
MaxSteps == 4        \* handler invocations explored from Init
CapSteps == 3        \* handler invocations explored from InitNearCap
PreFill == 47        \* focus-out commits performed before InitNearCap
NumAdds == 60        \* add operations of the history-bounds scenario
LayoutSteps == 4     \* handler invocations explored by SpecLayout
GestureSteps == 6    \* handler invocations explored by SpecGesture
EncodeSteps == 4     \* handler invocations explored by SpecEncode
CodecSteps == 3      \* handler invocations explored by SpecCodec
DecodeSteps == 2     \* handler invocations explored by SpecDecode
PanelSteps == 4      \* handler invocations explored by SpecPanel
SnapSteps == 3       \* handler invocations explored by SpecSnap
OpenSteps == 4       \* handler invocations explored by SpecOpen
MaxCoord == 6        \* largest coordinate, either sign, of the object SpecSnap moves
MaxGrid == 5         \* largest grid size SpecSnap sets
MaxLines == 3        \* lines of a command file given to the decoder

\* ------------------------------------------------------- program constants
max_undo_steps == 50
PasteOffset == 20
AddAnchor == 50

None == 0
Stale == -1

\* ---------------------------------------------------------------- inputs
AddTypes == {"text", "barcode"}
GridSizes == {10}
SnapInputs == {TRUE}
ClickPoints == {<<0, 0>>, <<55, 55>>, <<75, 75>>}
DragPoints == {<<55, 55>>, <<60, 70>>}
EntryInputs == {"-5", "abc"}
EditAttrs == {"width", "text"}
ComboInputs == {<<"font_type", "B">>, <<"barcode_type", "39">>}
DialogWidths == {-5}
ObjectTypes == {"text", "barcode", "rectangle", "line", "circle", "image"}
LayoutGrids == {20, 30}
GestureTypes == {"rectangle", "text"}
Orientations == {"Portrait", "Landscape"}
GestureEntries == {<<"x", "25">>}
GesturePoints == {<<55, 55>>, <<60, 70>>}

\* ------------------------------------------------------------- data model
LabelSettings ==
  [snap_to_grid |-> FALSE, grid_size |-> 10, orientation |-> "Portrait"]

ZPLObject(obj_type, x, y, width, height, text, id) ==
  [obj_type |-> obj_type, x |-> x, y |-> y, width |-> width, height |-> height,
   text |-> text, font_size |-> "30", font_type |-> "A", rotation |-> 0,
   thickness |-> 2, barcode_type |-> "128", line_thickness |-> 3,
   selected |-> FALSE, id |-> id,
   bar_module |-> 3, bar_ratio |-> 2, bar_height |-> 100, hri_above |-> FALSE]

\* defaults table of add_object
AddDefaults(obj_type) ==
  CASE obj_type = "text"      -> [width |-> 100, height |-> 30, text |-> "Esempio"]
    [] obj_type = "barcode"   -> [width |-> 120, height |-> 60, text |-> "123456789"]
    [] obj_type = "rectangle" -> [width |-> 80,  height |-> 40, text |-> ""]
    [] obj_type = "line"      -> [width |-> 100, height |-> 0,  text |-> ""]
    [] obj_type = "circle"    -> [width |-> 40,  height |-> 40, text |-> ""]
    [] obj_type = "image"     -> [width |-> 60,  height |-> 60, text |-> "image.bmp"]
    [] OTHER                  -> [width |-> 50,  height |-> 20, text |-> ""]

\* ---------------------------------------------------------- pure helpers
Abs(n) == IF n < 0 THEN -n ELSE n

Max(a, b) == IF a > b THEN a ELSE b

Min(a, b) == IF a < b THEN a ELSE b

\* Python round(x / g) for integers x and g > 0: nearest, ties to even
PyRound(x, g) ==
  LET q == x \div g
      r == x % g
  IN  IF 2 * r < g THEN q
      ELSE IF 2 * r > g THEN q + 1
      ELSE IF q % 2 = 0 THEN q ELSE q + 1

\* (variant: the number of the grid cell is returned, not its coordinate)
snap_to_grid_cells(ls, x, y) ==
  IF ~ls.snap_to_grid THEN <<x, y>>
  ELSE <<PyRound(x, ls.grid_size), PyRound(y, ls.grid_size)>>

\* (variant: the coordinates are rounded down to the grid)
snap_to_grid_floor(ls, x, y) ==
  IF ~ls.snap_to_grid THEN <<x, y>>
  ELSE <<(x \div ls.grid_size) * ls.grid_size, (y \div ls.grid_size) * ls.grid_size>>

snap_to_grid(ls, x, y) ==
  IF ~ls.snap_to_grid THEN <<x, y>>
  ELSE <<PyRound(x, ls.grid_size) * ls.grid_size,
         PyRound(y, ls.grid_size) * ls.grid_size>>

\* int(text) of an entry: <<TRUE, value>> or <<FALSE, 0>> on ValueError
PyInt(s) ==
  CASE s = "-5" -> <<TRUE, -5>>
    [] s = "25" -> <<TRUE, 25>>
    [] s = "30" -> <<TRUE, 30>>
    [] s = "20" -> <<TRUE, 20>>
    [] OTHER    -> <<FALSE, 0>>

\* number of characters of the texts the model uses
CharCount(s) ==
  CASE s = "Esempio"   -> 7
    [] s = "123456789" -> 9
    [] s = "image.bmp" -> 9
    [] s = "abc"       -> 3
    [] s = "-5"        -> 2
    [] s = "Hello"     -> 5
    [] OTHER           -> 0

\* the canvas text extent used by _draw_object: pixel size clamped to
\* 8..200 (12 when font_size is not a number), width grows with the text
canvas_bbox(text, font_size) ==
  LET p    == PyInt(font_size)
      size == IF p[1] THEN Max(8, Min(200, p[2])) ELSE 12
  IN  <<(CharCount(text) * size) \div 2, size>>

\* redraw_objects: drawing a text object overwrites its width and height
redraw_objects(objs) ==
  [i \in 1..Len(objs) |->
     IF objs[i].obj_type = "text"
     THEN [objs[i] EXCEPT !.width  = canvas_bbox(objs[i].text, objs[i].font_size)[1],
                          !.height = canvas_bbox(objs[i].text, objs[i].font_size)[2]]
     ELSE objs[i]]

\* (variant: the flags of the other objects are left as they are)
select_object_keep_flags(objs, idx) ==
  redraw_objects([i \in 1..Len(objs) |->
                    IF i = idx THEN [objs[i] EXCEPT !.selected = TRUE] ELSE objs[i]])

\* select_object: clear every flag, then flag the object at position idx
select_object(objs, idx) ==
  redraw_objects([i \in 1..Len(objs) |-> [objs[i] EXCEPT !.selected = (i = idx)]])

\* list.index / list.remove use ==: the first element equal to o
ListIndex(objs, o) ==
  CHOOSE i \in 1..Len(objs) : objs[i] = o /\ \A j \in 1..(i - 1) : objs[j] # o

\* (variant: the last element is removed whatever k is)
RemoveAtLast(objs, k) == SubSeq(objs, 1, Len(objs) - 1)

RemoveAt(objs, k) ==
  [i \in 1..(Len(objs) - 1) |-> IF i < k THEN objs[i] ELSE objs[i + 1]]

\* (variant: the element at a is copied over the one at b)
SwapOverwrite(objs, a, b) ==
  [i \in 1..Len(objs) |-> IF i = b THEN objs[a] ELSE objs[i]]

Swap(objs, a, b) ==
  [i \in 1..Len(objs) |-> IF i = a THEN objs[b] ELSE IF i = b THEN objs[a] ELSE objs[i]]

\* topmost object containing the point, None when there is none
HitTest(objs, px, py) ==
  LET hits == {i \in 1..Len(objs) :
                 /\ objs[i].x <= px /\ px <= objs[i].x + objs[i].width
                 /\ objs[i].y <= py /\ py <= objs[i].y + objs[i].height}
  IN  IF hits = {} THEN None ELSE CHOOSE i \in hits : \A j \in hits : j <= i

\* ------------------------------------------------------- command encoder
\* Texts are sequences of characters (one-character strings).
\* The characters of the strings the model stores in the fields of an object;
\* a string that is not listed is a single character
Chars(s) ==
  CASE s = ""          -> <<>>
    [] s = "Esempio"   -> <<"E", "s", "e", "m", "p", "i", "o">>
    [] s = "123456789" -> <<"1", "2", "3", "4", "5", "6", "7", "8", "9">>
    [] s = "image.bmp" -> <<"i", "m", "a", "g", "e", ".", "b", "m", "p">>
    [] s = "abc"       -> <<"a", "b", "c">>
    [] s = "Hello"     -> <<"H", "e", "l", "l", "o">>
    [] s = "-5"        -> <<"-", "5">>
    [] s = "20"        -> <<"2", "0">>
    [] s = "25"        -> <<"2", "5">>
    [] s = "30"        -> <<"3", "0">>
    [] s = "39"        -> <<"3", "9">>
    [] s = "93"        -> <<"9", "3">>
    [] s = "128"       -> <<"1", "2", "8">>
    [] s = "I25"       -> <<"I", "2", "5">>
    [] s = "EAN13"     -> <<"E", "A", "N", "1", "3">>
    [] s = "EAN8"      -> <<"E", "A", "N", "8">>
    [] s = "UPCA"      -> <<"U", "P", "C", "A">>
    [] s = "UPCE"      -> <<"U", "P", "C", "E">>
    [] OTHER           -> <<s>>

DigitChars == <<"0", "1", "2", "3", "4", "5", "6", "7", "8", "9">>

RECURSIVE NatChars(_)
NatChars(n) ==
  IF n < 10 THEN <<DigitChars[n + 1]>>
  ELSE NatChars(n \div 10) \o <<DigitChars[(n % 10) + 1]>>

\* f"{n}" of a Python int
IntChars(n) == IF n < 0 THEN <<"-">> \o NatChars(-n) ELSE NatChars(n)

LowerCase == <<"a", "b", "c", "d", "e", "f", "g", "h", "i", "j", "k", "l", "m",
               "n", "o", "p", "q", "r", "s", "t", "u", "v", "w", "x", "y", "z">>

UpperCase == <<"A", "B", "C", "D", "E", "F", "G", "H", "I", "J", "K", "L", "M",
               "N", "O", "P", "Q", "R", "S", "T", "U", "V", "W", "X", "Y", "Z">>

\* str.upper
Upper(cs) ==
  [i \in 1..Len(cs) |->
     IF \E k \in 1..Len(LowerCase) : LowerCase[k] = cs[i]
     THEN UpperCase[CHOOSE k \in 1..Len(LowerCase) : LowerCase[k] = cs[i]]
     ELSE cs[i]]

\* str.replace(pat, ''): every occurrence of pat, left to right
RECURSIVE RemoveAll(_, _)
RemoveAll(cs, pat) ==
  IF Len(cs) < Len(pat) THEN cs
  ELSE IF SubSeq(cs, 1, Len(pat)) = pat
       THEN RemoveAll(SubSeq(cs, Len(pat) + 1, Len(cs)), pat)
       ELSE <<cs[1]>> \o RemoveAll(Tail(cs), pat)

\* cs[:n]
Take(cs, n) == SubSeq(cs, 1, Min(n, Len(cs)))

\* the name of the stored graphic an image refers to
ImageName(text) ==
  Upper(Take(RemoveAll(RemoveAll(Chars(text), <<".", "b", "m", "p">>),
                       <<".", "B", "M", "P">>), 8))

\* the pieces of command text
FormatStart == <<"^", "X", "A", "\n">>

FormatEnd == <<"^", "X", "Z", "\n">>

InvertOrientation == <<"^", "P", "O", "I", "\n">>

FieldEnd == <<"^", "F", "S", "\n">>

FieldOrigin(obj) ==
  <<"^", "F", "O">> \o IntChars(obj.x) \o <<",">> \o IntChars(obj.y) \o <<"\n">>

FieldData(obj) == <<"^", "F", "D">> \o Chars(obj.text) \o FieldEnd

\* (variant: no text is skipped)
skip_text_ids_none(objs) == {}

\* (variant: every text that matches a barcode is skipped)
skip_text_ids_all(objs) ==
  {objs[j].id : j \in
     {j \in 1..Len(objs) :
        \E i \in 1..Len(objs) :
          /\ objs[i].obj_type = "barcode"
          /\ objs[j].obj_type = "text"
          /\ objs[j].text = objs[i].text
          /\ Abs(objs[j].x - objs[i].x) <= 2
          /\ Abs(objs[j].width - objs[i].width) <= 2
          /\ Abs(objs[j].y - (objs[i].y + objs[i].height + 5)) <= 3}}

\* the text objects generate_zpl skips: for each barcode, the first text with
\* the barcode's text lying right below it
skip_text_ids(objs) ==
  {objs[j].id : j \in
     {j \in 1..Len(objs) :
        \E i \in 1..Len(objs) :
          LET Match(k) ==
                /\ objs[k].obj_type = "text"
                /\ objs[k].text = objs[i].text
                /\ Abs(objs[k].x - objs[i].x) <= 2
                /\ Abs(objs[k].width - objs[i].width) <= 2
                /\ Abs(objs[k].y - (objs[i].y + objs[i].height + 5)) <= 3
          IN  /\ objs[i].obj_type = "barcode"
              /\ Match(j)
              /\ \A k \in 1..(j - 1) : ~Match(k)}}

\* the symbology line of a barcode; none for a type that is not listed
BarcodeCommand(obj) ==
  LET hri  == IF obj.hri_above THEN "Y" ELSE "N"
      tail == IntChars(obj.height) \o <<",", "Y", ",", hri, ",", "Y", "\n">>
      t    == obj.barcode_type
  IN  CASE t = "128"               -> <<"^", "B", "C", "N", ",">> \o tail
        [] t = "39"                -> <<"^", "B", "3", "N", ",", "N", ",">> \o tail
        [] t = "93"                -> <<"^", "B", "A", "N", ",">> \o tail
        [] t = "I25"               -> <<"^", "B", "2", "N", ",", "N", ",">> \o tail
        [] t \in {"EAN13", "EAN8"} -> <<"^", "B", "E", "N", ",">> \o tail
        [] t \in {"UPCA", "UPCE"}  -> <<"^", "B", "U", "N", ",">> \o tail
        [] OTHER                   -> <<>>

\* the command text of one object that is not skipped
EncodeObject(obj) ==
  LET t == obj.obj_type
  IN  CASE t = "barcode" ->
             FieldOrigin(obj)
               \o <<"^", "B", "Y">> \o IntChars(obj.bar_module) \o <<",">>
               \o IntChars(obj.bar_ratio) \o <<",">> \o IntChars(obj.bar_height)
               \o <<"\n">>
               \o BarcodeCommand(obj)
               \o FieldData(obj)
        [] t = "text" ->
             FieldOrigin(obj)
               \o <<"^", "A">> \o Chars(obj.font_type) \o <<",", "N", ",">>
               \o Chars(obj.font_size) \o <<",">> \o Chars(obj.font_size) \o <<"\n">>
               \o (IF obj.rotation # 0 THEN <<"^", "F", "W", "R", "\n">> ELSE <<>>)
               \o FieldData(obj)
        [] t = "rectangle" ->
             FieldOrigin(obj)
               \o <<"^", "G", "B">> \o IntChars(obj.width) \o <<",">>
               \o IntChars(obj.height) \o <<",">> \o IntChars(obj.thickness)
               \o FieldEnd
        [] t = "line" ->
             FieldOrigin(obj)
               \o (IF obj.width > obj.height
                   THEN <<"^", "G", "B">> \o IntChars(obj.width) \o <<",">>
                          \o IntChars(Max(1, obj.line_thickness))
                   ELSE <<"^", "G", "B">> \o IntChars(Max(1, obj.line_thickness))
                          \o <<",">> \o IntChars(obj.height))
               \o <<",", "B">> \o FieldEnd
        [] t = "circle" ->
             FieldOrigin(obj)
               \o <<"^", "G", "C">> \o IntChars(Min(obj.width, obj.height))
               \o <<",">> \o IntChars(obj.thickness) \o FieldEnd
        [] t = "image" ->
             FieldOrigin(obj)
               \o (IF obj.text # ""
                   THEN <<"^", "X", "G">> \o ImageName(obj.text)
                          \o <<",", "1", ",", "1">> \o FieldEnd
                   ELSE <<>>)
        [] OTHER -> FieldOrigin(obj)

\* the blocks of the objects in z-order, the skipped texts left out
RECURSIVE EncodeObjects(_, _)
EncodeObjects(objs, skip) ==
  IF objs = <<>> THEN <<>>
  ELSE (IF objs[1].obj_type = "text" /\ objs[1].id \in skip
        THEN <<>> ELSE EncodeObject(objs[1]))
         \o EncodeObjects(Tail(objs), skip)

\* (variant: the end marker is written only when there are objects)
generate_zpl_open(objs, ls) ==
  FormatStart
    \o (IF ls.orientation = "Landscape" THEN InvertOrientation ELSE <<>>)
    \o EncodeObjects(objs, skip_text_ids(objs))
    \o (IF objs = <<>> THEN <<>> ELSE FormatEnd)

\* generate_zpl: the command text of the Scene under the label settings
generate_zpl(objs, ls) ==
  FormatStart
    \o (IF ls.orientation = "Landscape" THEN InvertOrientation ELSE <<>>)
    \o EncodeObjects(objs, skip_text_ids(objs))
    \o FormatEnd

\* ------------------------------------------------------- command decoder
\* the string with the characters cs
RECURSIVE Str(_)
Str(cs) ==
  IF Len(cs) = 0 THEN ""
  ELSE IF Len(cs) = 1 THEN cs[1]
  ELSE Str(SubSeq(cs, 1, Len(cs) \div 2))
         \o Str(SubSeq(cs, (Len(cs) \div 2) + 1, Len(cs)))

Lowest(S) == CHOOSE i \in S : \A j \in S : i <= j

Highest(S) == CHOOSE i \in S : \A j \in S : j <= i

\* content.split('\n')
RECURSIVE SplitLines(_)
SplitLines(cs) ==
  LET brk == {i \in 1..Len(cs) : cs[i] = "\n"}
  IN  IF brk = {} THEN <<cs>>
      ELSE <<SubSeq(cs, 1, Lowest(brk) - 1)>>
             \o SplitLines(SubSeq(cs, Lowest(brk) + 1, Len(cs)))

WhiteSpace == {" ", "\t", "\r", "\n"}

\* line.strip()
Strip(cs) ==
  LET ink == {i \in 1..Len(cs) : cs[i] \notin WhiteSpace}
  IN  IF ink = {} THEN <<>> ELSE SubSeq(cs, Lowest(ink), Highest(ink))

\* line.startswith(prefix)
StartsWith(cs, prefix) ==
  Len(cs) >= Len(prefix) /\ SubSeq(cs, 1, Len(prefix)) = prefix

\* the characters \d matches
Digits == {DigitChars[k] : k \in 1..Len(DigitChars)}

\* the characters [A-Z0-9] matches
CapitalsAndDigits == {UpperCase[k] : k \in 1..Len(UpperCase)} \cup Digits

\* the longest prefix of cs made of characters of S (a greedy S+ or S*)
LeadingRun(cs, S) ==
  LET stops == {j \in 1..Len(cs) : cs[j] \notin S}
  IN  IF stops = {} THEN cs ELSE SubSeq(cs, 1, Lowest(stops) - 1)

\* re.findall(r'\d+', line): the maximal runs of digits, left to right
RECURSIVE DigitRuns(_)
DigitRuns(cs) ==
  LET starts == {i \in 1..Len(cs) : cs[i] \in Digits}
  IN  IF starts = {} THEN <<>>
      ELSE LET rest == SubSeq(cs, Lowest(starts), Len(cs))
               run  == LeadingRun(rest, Digits)
           IN  <<run>> \o DigitRuns(SubSeq(rest, Len(run) + 1, Len(rest)))

\* int(ds) of a run of digits
RECURSIVE NatValue(_)
NatValue(ds) ==
  IF ds = <<>> THEN 0
  ELSE 10 * NatValue(SubSeq(ds, 1, Len(ds) - 1))
         + ((CHOOSE k \in 1..Len(DigitChars) : DigitChars[k] = ds[Len(ds)]) - 1)

\* (variant: no font command is recognised)
FontMatchNever(cs) == FALSE

\* re.match(r'\^A([A-Z0-9]),N,(\d+)', line)
FontMatch(cs) ==
  /\ Len(cs) >= 7
  /\ SubSeq(cs, 1, 2) = <<"^", "A">>
  /\ cs[3] \in CapitalsAndDigits
  /\ SubSeq(cs, 4, 6) = <<",", "N", ",">>
  /\ cs[7] \in Digits

\* re.match(r'\^B([A-Z0-9]+)', line).group(1); empty when there is no match
BarcodeMatch(cs) ==
  IF StartsWith(cs, <<"^", "B">>)
  THEN LeadingRun(SubSeq(cs, 3, Len(cs)), CapitalsAndDigits)
  ELSE <<>>

\* (variant: the position starts at (10,10))
InitialContextShifted ==
  [objects |-> <<>>, current_x |-> 10, current_y |-> 10,
   current_font_type |-> "A", current_font_size |-> "30"]

\* the running context of parse_zpl_file before the first line
InitialContext ==
  [objects |-> <<>>, current_x |-> 0, current_y |-> 0,
   current_font_type |-> "A", current_font_size |-> "30"]

\* (variant: a command that is not known is taken for field data)
LineKindGreedy(line) ==
  CASE line = <<>>                            -> "blank"
    [] StartsWith(line, <<"^", "F", "O">>)    -> "FO"
    [] StartsWith(line, <<"^", "A">>)         -> "A"
    [] StartsWith(line, <<"^", "G", "B">>)    -> "GB"
    [] StartsWith(line, <<"^", "G", "C">>)    -> "GC"
    [] StartsWith(line, <<"^", "B">>)         -> "B"
    [] OTHER                                  -> "FD"

\* the branch of the if / elif chain of parse_zpl_file a stripped line takes
LineKind(line) ==
  CASE line = <<>>                            -> "blank"
    [] StartsWith(line, <<"^", "F", "O">>)    -> "FO"
    [] StartsWith(line, <<"^", "A">>)         -> "A"
    [] StartsWith(line, <<"^", "F", "D">>)    -> "FD"
    [] StartsWith(line, <<"^", "G", "B">>)    -> "GB"
    [] StartsWith(line, <<"^", "G", "C">>)    -> "GC"
    [] StartsWith(line, <<"^", "B">>)         -> "B"
    [] OTHER                                  -> "none"

\* one turn of the loop of parse_zpl_file; an object the decoder creates has
\* no identifier here (0), PostInit gives it one
ParseLine(ctx, raw) ==
  LET line    == Strip(raw)
      kind    == LineKind(line)
      runs    == DigitRuns(line)
      emit(o) == [ctx EXCEPT !.objects = Append(@, o)]
  IN  CASE kind = "FO" ->
             IF Len(runs) >= 2
             THEN [ctx EXCEPT !.current_x = NatValue(runs[1]),
                              !.current_y = NatValue(runs[2])]
             ELSE ctx
        [] kind = "A" ->
             IF FontMatch(line)
             THEN [ctx EXCEPT !.current_font_type = line[3],
                              !.current_font_size =
                                 Str(LeadingRun(SubSeq(line, 7, Len(line)), Digits))]
             ELSE ctx
        [] kind = "FD" ->
             emit([ZPLObject("text", ctx.current_x, ctx.current_y, 100, 30,
                             Str(RemoveAll(SubSeq(line, 4, Len(line)),
                                           <<"^", "F", "S">>)), 0)
                     EXCEPT !.font_type = ctx.current_font_type,
                            !.font_size = ctx.current_font_size])
        [] kind = "GB" ->
             IF Len(runs) >= 2
             THEN emit([ZPLObject("rectangle", ctx.current_x, ctx.current_y,
                                  NatValue(runs[1]), NatValue(runs[2]), "", 0)
                          EXCEPT !.thickness =
                                   IF Len(runs) > 2 THEN NatValue(runs[3]) ELSE 2])
             ELSE ctx
        [] kind = "GC" ->
             IF Len(runs) >= 1
             THEN emit([ZPLObject("circle", ctx.current_x, ctx.current_y,
                                  NatValue(runs[1]), NatValue(runs[1]), "", 0)
                          EXCEPT !.thickness =
                                   IF Len(runs) > 1 THEN NatValue(runs[2]) ELSE 2])
             ELSE ctx
        [] kind = "B" ->
             IF BarcodeMatch(line) # <<>>
             THEN emit([ZPLObject("barcode", ctx.current_x, ctx.current_y,
                                  120, 60, "", 0)
                          EXCEPT !.barcode_type = Str(BarcodeMatch(line))])
             ELSE ctx
        [] OTHER -> ctx

\* the loop of parse_zpl_file over the lines
RECURSIVE ParseLines(_, _)
ParseLines(ctx, lines) ==
  IF lines = <<>> THEN ctx ELSE ParseLines(ParseLine(ctx, lines[1]), Tail(lines))

\* ZPLParser.parse_zpl_file: the objects recognised in the command text
parse_zpl_file(content) == ParseLines(InitialContext, SplitLines(content)).objects

\* ------------------------------------------------------------- history
\* (variant: the size limit is never applied)
PushStateNoEvict(us, objs) == Append(us, objs)

\* save_state on the undo stack: push a deep copy, drop the oldest beyond
\* max_undo_steps
PushState(us, objs) ==
  LET pushed == Append(us, objs)
  IN  IF Len(pushed) > max_undo_steps THEN Tail(pushed) ELSE pushed

Front(s) == SubSeq(s, 1, Len(s) - 1)

Last(s) == s[Len(s)]

\* ------------------------------------------------------------------ state
VARIABLES
  objects,          \* self.objects: the live Scene, index 1 = bottom
  selected_object,  \* self.selected_object: None, a position in objects, or
                    \* Stale after a project file failed to load
  drag_data,        \* self.drag_data: [x, y, item]
  clipboard_object, \* self.clipboard_object: <<>> (None) or <<object>>
  undo_stack,       \* self.undo_stack: snapshots, oldest first
  redo_stack,       \* self.redo_stack
  label_settings,   \* self.label_settings
  focus_entry,      \* attribute whose panel Entry has the focus, or "none"
  next_id,          \* identifiers handed out so far (uuid4 is taken as fresh)
  hist,             \* names of the handlers run since Init
  commits,          \* number of save_state calls so far
  sym,              \* bookkeeping of the current undo/redo run
  seen,             \* the source as it was copied; the Scene at the last press on
                    \* an object, the position of that object, the top snapshot
                    \* then and the number of the press among the handlers run;
                    \* the command text last read by import_zpl_file and the
                    \* objects the decoder made of it; the lists of errors and
                    \* warnings the validator last showed
  zpl_out           \* the command text last handed to file, clipboard or dialog

vars == <<objects, selected_object, drag_data, clipboard_object, undo_stack,
          redo_stack, label_settings, focus_entry, next_id, hist, commits, sym,
          seen, zpl_out>>

\* nothing was copied, pressed, encoded, decoded or validated yet
NoneSeen ==
  [copied |-> <<>>, press |-> <<>>, pressed |-> None, base |-> <<>>, at |-> 0,
   file |-> <<>>, parsed |-> <<>>, errors |-> <<>>, warnings |-> <<>>]

\* the handler called name ran; it neither copies, presses nor encodes
Record(name) ==
  /\ hist' = Append(hist, name)
  /\ UNCHANGED <<seen, zpl_out>>

\* ZPLEditor.__init__: empty scene, then save_state() for the initial state
Init ==
  /\ objects = <<>>
  /\ selected_object = None
  /\ drag_data = [x |-> 0, y |-> 0, item |-> None]
  /\ clipboard_object = <<>>
  /\ undo_stack = PushState(<<>>, <<>>)
  /\ redo_stack = <<>>
  /\ label_settings = LabelSettings
  /\ focus_entry = "none"
  /\ next_id = 0
  /\ hist = <<>>
  /\ commits = 1
  /\ sym = [phase |-> "idle", undos |-> 0, redos |-> 0, moved |-> FALSE,
            target |-> <<>>, committed |-> TRUE]
  /\ seen = NoneSeen
  /\ zpl_out = <<>>

\* ------------------------------------------------ bookkeeping of the run
\* a mutating operation ends any undo/redo run; target is the Scene right
\* after it, committed tells whether the operation ended in save_state;
\* undos and redos count the calls of the run (no-ops included), moved tells
\* whether one of its undos restored a snapshot
SymMutation(objs, didCommit) ==
  [phase |-> "idle", undos |-> 0, redos |-> 0, moved |-> FALSE,
   target |-> objs, committed |-> didCommit]

SymUndo ==
  IF sym.phase \in {"idle", "undoing"}
  THEN [sym EXCEPT !.phase = "undoing", !.undos = @ + 1,
                   !.moved = @ \/ Len(undo_stack) > 1]
  ELSE IF sym.phase = "redoing" /\ sym.redos = sym.undos
  THEN [sym EXCEPT !.phase = "undoing", !.undos = 1, !.redos = 0,
                   !.moved = Len(undo_stack) > 1]
  ELSE [sym EXCEPT !.phase = "off"]

SymRedo ==
  IF sym.phase \in {"undoing", "redoing"} /\ sym.redos < sym.undos
  THEN [sym EXCEPT !.phase = "redoing", !.redos = @ + 1]
  ELSE [sym EXCEPT !.phase = "off"]

\* (variant: the redo stack survives a commit)
save_state_keep_redo(objs) ==
  /\ undo_stack' = PushState(undo_stack, objs)
  /\ redo_stack' = redo_stack
  /\ commits' = commits + 1

\* (variant: the snapshot is pushed twice)
save_state_twice(objs) ==
  /\ undo_stack' = PushState(PushState(undo_stack, objs), objs)
  /\ redo_stack' = <<>>
  /\ commits' = commits + 2

\* save_state(): push a deep copy of the Scene, clear the redo stack
save_state(objs) ==
  /\ undo_stack' = PushState(undo_stack, objs)
  /\ redo_stack' = <<>>
  /\ commits' = commits + 1

NoCommit == UNCHANGED <<undo_stack, redo_stack, commits>>

\* the drag item after the object at position k left the list
ItemAfterRemove(item, k) ==
  IF item = k THEN Stale ELSE IF item > k THEN item - 1 ELSE item

\* the drag item after the whole list was replaced by other objects
ItemAfterReplace(item) == IF item = None THEN None ELSE Stale

\* ---------------------------------------------------------------- actions
add_object(obj_type) ==
  LET d   == AddDefaults(obj_type)
      p   == snap_to_grid(label_settings, AddAnchor, AddAnchor)
      obj == ZPLObject(obj_type, p[1], p[2], d.width, d.height, d.text, next_id + 1)
      new == select_object(Append(objects, obj), Len(objects) + 1)
  IN  /\ objects' = new
      /\ selected_object' = Len(objects) + 1
      /\ next_id' = next_id + 1
      /\ focus_entry' = "none"
      /\ save_state(new)
      /\ Record("add_object")
      /\ sym' = SymMutation(new, TRUE)
      /\ UNCHANGED <<drag_data, clipboard_object, label_settings>>

\* (objects.remove raises ValueError when the selected object is not in the
\* list: the handler ends there and nothing has changed)
delete_selected ==
  /\ Record(IF selected_object = Stale THEN "delete_selected_raise" ELSE "delete_selected")
  /\ IF selected_object \notin {None, Stale}
     THEN LET k   == ListIndex(objects, objects[selected_object])
              new == redraw_objects(RemoveAt(objects, k))
          IN  /\ objects' = new
              /\ selected_object' = None
              /\ drag_data' = [drag_data EXCEPT !.item = ItemAfterRemove(@, k)]
              /\ focus_entry' = "none"
              /\ save_state(new)
              /\ sym' = SymMutation(new, TRUE)
              /\ UNCHANGED <<clipboard_object, label_settings, next_id>>
     ELSE /\ NoCommit
          /\ UNCHANGED <<objects, selected_object, drag_data, clipboard_object,
                         label_settings, focus_entry, next_id, sym>>

\* clear_all after the confirmation dialog answered yes / no
clear_all(confirm) ==
  IF confirm
  THEN /\ objects' = <<>>
       /\ selected_object' = None
       /\ drag_data' = [drag_data EXCEPT !.item = ItemAfterReplace(@)]
       /\ focus_entry' = "none"
       /\ save_state(<<>>)
       /\ Record("clear_all")
       /\ sym' = SymMutation(<<>>, TRUE)
       /\ UNCHANGED <<clipboard_object, label_settings, next_id>>
  ELSE /\ Record("clear_all_cancel")
       /\ NoCommit
       /\ UNCHANGED <<objects, selected_object, drag_data, clipboard_object,
                      label_settings, focus_entry, next_id, sym>>

\* (variant: a copy with nothing selected empties the slot)
copy_object_unguarded ==
  /\ hist' = Append(hist, "copy_object")
  /\ seen' = IF selected_object # None
             THEN [seen EXCEPT !.copied = <<objects[selected_object]>>]
             ELSE seen
  /\ UNCHANGED zpl_out
  /\ clipboard_object' =
       IF selected_object # None
       THEN <<[objects[selected_object] EXCEPT !.selected = FALSE]>>
       ELSE <<>>
  /\ NoCommit
  /\ UNCHANGED <<objects, selected_object, drag_data, label_settings,
                 focus_entry, next_id, sym>>

copy_object ==
  /\ hist' = Append(hist, "copy_object")
  /\ seen' = IF selected_object # None
             THEN [seen EXCEPT !.copied = <<objects[selected_object]>>]
             ELSE seen
  /\ UNCHANGED zpl_out
  /\ clipboard_object' =
       IF selected_object # None
       THEN <<[objects[selected_object] EXCEPT !.selected = FALSE]>>
       ELSE clipboard_object
  /\ NoCommit
  /\ UNCHANGED <<objects, selected_object, drag_data, label_settings,
                 focus_entry, next_id, sym>>

\* (variant: the clone keeps the identifier of the clipboard object)
PasteCloneKeepId(c, fresh) ==
  [c EXCEPT !.x = @ + PasteOffset, !.y = @ + PasteOffset]

\* the object paste_object builds: a deep copy of the clipboard object, moved
\* by the offset, its id reset and generated again by __post_init__
PasteClone(c, fresh) ==
  [c EXCEPT !.x = @ + PasteOffset, !.y = @ + PasteOffset, !.id = fresh]

paste_object ==
  /\ Record("paste_object")
  /\ IF clipboard_object # <<>>
     THEN LET c       == clipboard_object[1]
              new_obj == PasteClone(c, next_id + 1)
              new     == select_object(Append(objects, new_obj), Len(objects) + 1)
          IN  /\ objects' = new
              /\ selected_object' = Len(objects) + 1
              /\ next_id' = next_id + 1
              /\ focus_entry' = "none"
              /\ save_state(new)
              /\ sym' = SymMutation(new, TRUE)
              /\ UNCHANGED <<drag_data, clipboard_object, label_settings>>
     ELSE /\ NoCommit
          /\ UNCHANGED <<objects, selected_object, drag_data, clipboard_object,
                         label_settings, focus_entry, next_id, sym>>

\* bring_forward (dir = 1) and send_backward (dir = -1); objects.index raises
\* ValueError when the selected object is not in the list
reorder(dir, name) ==
  /\ Record(IF selected_object = Stale THEN name \o "_raise" ELSE name)
  /\ LET idx == IF selected_object \notin {None, Stale}
                THEN ListIndex(objects, objects[selected_object]) ELSE 0
         ok  == /\ selected_object \notin {None, Stale}
                /\ IF dir = 1 THEN idx < Len(objects) ELSE idx > 1
     IN  IF ok
         THEN LET new == redraw_objects(Swap(objects, idx, idx + dir))
                  ref(r) == IF r = idx THEN idx + dir
                            ELSE IF r = idx + dir THEN idx ELSE r
              IN  /\ objects' = new
                  /\ selected_object' = ref(selected_object)
                  /\ drag_data' = [drag_data EXCEPT !.item = ref(@)]
                  /\ save_state(new)
                  /\ sym' = SymMutation(new, TRUE)
                  /\ UNCHANGED <<clipboard_object, label_settings, focus_entry, next_id>>
         ELSE /\ NoCommit
              /\ UNCHANGED <<objects, selected_object, drag_data, clipboard_object,
                             label_settings, focus_entry, next_id, sym>>

bring_forward == reorder(1, "bring_forward")

send_backward == reorder(-1, "send_backward")

\* ------------------------------------------------------ canvas interaction
\* on_canvas_click at canvas point (px, py)
on_canvas_click(px, py) ==
  LET clicked == HitTest(objects, px, py)
  IN  /\ hist' = Append(hist, "on_canvas_click")
      /\ seen' = IF clicked # None
                 THEN [seen EXCEPT !.press = objects, !.pressed = clicked,
                                   !.base = Last(undo_stack), !.at = Len(hist) + 1]
                 ELSE seen
      /\ UNCHANGED zpl_out
      /\ objects' = select_object(objects, clicked)
      /\ selected_object' = clicked
      /\ drag_data' = IF clicked # None
                      THEN [x |-> px, y |-> py, item |-> clicked]
                      ELSE drag_data
      /\ focus_entry' = "none"
      /\ NoCommit
      /\ sym' = IF clicked # None
                THEN SymMutation(select_object(objects, clicked), FALSE)
                ELSE sym
      /\ UNCHANGED <<clipboard_object, label_settings, next_id>>

\* on_canvas_drag to canvas point (px, py)
on_canvas_drag(px, py) ==
  /\ drag_data.item # None
  /\ Record("on_canvas_drag")
  /\ NoCommit
  /\ LET dx == px - drag_data.x
         dy == py - drag_data.y
     IN  IF drag_data.item = Stale
         THEN objects' = redraw_objects(objects)
         ELSE LET obj == objects[drag_data.item]
                  p   == snap_to_grid(label_settings, obj.x + dx, obj.y + dy)
              IN  objects' = redraw_objects(
                    [objects EXCEPT ![drag_data.item] =
                       [obj EXCEPT !.x = p[1], !.y = p[2]]])
  /\ drag_data' = [drag_data EXCEPT !.x = px, !.y = py]
  /\ focus_entry' = "none"
  /\ sym' = SymMutation(objects', FALSE)
  /\ UNCHANGED <<selected_object, clipboard_object, label_settings, next_id>>

on_canvas_release ==
  /\ drag_data.item # None
  /\ Record("on_canvas_release")
  /\ drag_data' = [drag_data EXCEPT !.item = None]
  /\ save_state(objects)
  /\ sym' = SymMutation(objects, TRUE)
  /\ UNCHANGED <<objects, selected_object, clipboard_object, label_settings,
                 focus_entry, next_id>>

\* --------------------------------------------------------- property panel
IntAttrs == {"x", "y", "width", "height", "thickness", "line_thickness", "rotation"}

\* the rows update_properties_panel builds with add_property_row
PanelAttrs(obj) ==
  {"x", "y", "rotation"}
    \cup (IF obj.obj_type # "circle" THEN {"width", "height"} ELSE {})
    \cup (IF obj.obj_type \in {"text", "barcode", "image"} THEN {"text"} ELSE {})
    \cup (IF obj.obj_type = "text" THEN {"font_size"} ELSE {})
    \cup (IF obj.obj_type \in {"circle", "rectangle"} THEN {"thickness"} ELSE {})
    \cup (IF obj.obj_type = "line" THEN {"line_thickness"} ELSE {})

SetAttr(obj, attr, v) ==
  CASE attr = "x"              -> [obj EXCEPT !.x = v]
    [] attr = "y"              -> [obj EXCEPT !.y = v]
    [] attr = "width"          -> [obj EXCEPT !.width = v]
    [] attr = "height"         -> [obj EXCEPT !.height = v]
    [] attr = "thickness"      -> [obj EXCEPT !.thickness = v]
    [] attr = "line_thickness" -> [obj EXCEPT !.line_thickness = v]
    [] attr = "rotation"       -> [obj EXCEPT !.rotation = v]
    [] attr = "text"           -> [obj EXCEPT !.text = v]
    [] attr = "font_size"      -> [obj EXCEPT !.font_size = v]
    [] attr = "font_type"      -> [obj EXCEPT !.font_type = v]
    [] attr = "barcode_type"   -> [obj EXCEPT !.barcode_type = v]

GetAttr(obj, attr) ==
  CASE attr = "x"              -> obj.x
    [] attr = "y"              -> obj.y
    [] attr = "width"          -> obj.width
    [] attr = "height"         -> obj.height
    [] attr = "thickness"      -> obj.thickness
    [] attr = "line_thickness" -> obj.line_thickness
    [] attr = "rotation"       -> obj.rotation
    [] attr = "text"           -> obj.text
    [] attr = "font_size"      -> obj.font_size
    [] attr = "font_type"      -> obj.font_type
    [] attr = "barcode_type"   -> obj.barcode_type

\* add_property_row.update_value: the user types in the Entry of attr, which
\* now reads s (the Entry holds the keyboard focus from then on; moving to
\* another Entry goes through focus_out)
update_value(attr, s) ==
  /\ selected_object # None
  /\ attr \in PanelAttrs(objects[selected_object])
  /\ focus_entry \in {"none", attr}
  /\ focus_entry' = attr
  /\ Record("update_value")
  /\ NoCommit
  /\ LET obj    == objects[selected_object]
         parsed == IF attr \in IntAttrs THEN PyInt(s) ELSE <<TRUE, s>>
     IN  IF parsed[1] /\ GetAttr(obj, attr) # parsed[2]
         THEN /\ objects' = redraw_objects(
                   [objects EXCEPT ![selected_object] = SetAttr(obj, attr, parsed[2])])
              /\ sym' = SymMutation(objects', FALSE)
         ELSE UNCHANGED <<objects, sym>>
  /\ UNCHANGED <<selected_object, drag_data, clipboard_object, label_settings, next_id>>

\* (variant: losing the focus commits nothing)
focus_out_silent ==
  /\ focus_entry # "none"
  /\ focus_entry' = "none"
  /\ Record("focus_out")
  /\ NoCommit
  /\ UNCHANGED <<objects, selected_object, drag_data, clipboard_object,
                 label_settings, next_id, sym>>

\* <FocusOut> of a panel Entry: save_state()
focus_out ==
  /\ focus_entry # "none"
  /\ focus_entry' = "none"
  /\ Record("focus_out")
  /\ save_state(objects)
  /\ sym' = SymMutation(objects, TRUE)
  /\ UNCHANGED <<objects, selected_object, drag_data, clipboard_object,
                 label_settings, next_id>>

\* add_combobox_row.update_value: font of a text, symbology of a barcode
combobox_value(attr, v) ==
  /\ selected_object # None
  /\ \/ attr = "font_type" /\ objects[selected_object].obj_type = "text"
     \/ attr = "barcode_type" /\ objects[selected_object].obj_type = "barcode"
  /\ Record("combobox_value")
  /\ IF GetAttr(objects[selected_object], attr) # v
     THEN /\ objects' = redraw_objects(
               [objects EXCEPT ![selected_object] = SetAttr(@, attr, v)])
          /\ save_state(objects')
          /\ sym' = SymMutation(objects', TRUE)
     ELSE /\ NoCommit
          /\ UNCHANGED <<objects, sym>>
  /\ UNCHANGED <<selected_object, drag_data, clipboard_object, label_settings,
                 focus_entry, next_id>>

\* the "Testo sopra il barcode" checkbox
update_hri ==
  /\ selected_object # None
  /\ objects[selected_object].obj_type = "barcode"
  /\ Record("update_hri")
  /\ objects' = redraw_objects(
       [objects EXCEPT ![selected_object] = [@ EXCEPT !.hri_above = ~@]])
  /\ save_state(objects')
  /\ sym' = SymMutation(objects', TRUE)
  /\ UNCHANGED <<selected_object, drag_data, clipboard_object, label_settings,
                 focus_entry, next_id>>

\* update_properties_panel.set_diameter: the user types in the "Diametro"
\* Entry of a circle, which now reads s
set_diameter(s) ==
  /\ selected_object # None
  /\ objects[selected_object].obj_type = "circle"
  /\ focus_entry \in {"none", "diameter"}
  /\ focus_entry' = "diameter"
  /\ Record("set_diameter")
  /\ NoCommit
  /\ LET obj == objects[selected_object]
         d   == PyInt(s)
     IN  IF d[1] /\ (obj.width # d[2] \/ obj.height # d[2])
         THEN /\ objects' = redraw_objects(
                   [objects EXCEPT ![selected_object] =
                      [obj EXCEPT !.width = d[2], !.height = d[2]]])
              /\ sym' = SymMutation(objects', FALSE)
         ELSE UNCHANGED <<objects, sym>>
  /\ UNCHANGED <<selected_object, drag_data, clipboard_object, label_settings, next_id>>

\* update_properties_panel.set_bar_height: the user types in the "Altezza
\* (dots)" Entry of a barcode, which now reads s
set_bar_height(s) ==
  /\ selected_object # None
  /\ objects[selected_object].obj_type = "barcode"
  /\ focus_entry \in {"none", "bar_height"}
  /\ focus_entry' = "bar_height"
  /\ Record("set_bar_height")
  /\ NoCommit
  /\ LET obj == objects[selected_object]
         v   == PyInt(s)
     IN  IF v[1] /\ obj.bar_height # v[2]
         THEN /\ objects' = redraw_objects(
                   [objects EXCEPT ![selected_object] =
                      [obj EXCEPT !.bar_height = v[2], !.height = v[2]]])
              /\ sym' = SymMutation(objects', FALSE)
         ELSE UNCHANGED <<objects, sym>>
  /\ UNCHANGED <<selected_object, drag_data, clipboard_object, label_settings, next_id>>

\* show_object_properties.apply_changes with the W field set to w
apply_changes(w) ==
  /\ selected_object # None
  /\ Record("apply_changes")
  /\ objects' = redraw_objects(
       [objects EXCEPT ![selected_object] = [@ EXCEPT !.width = w]])
  /\ focus_entry' = "none"
  /\ save_state(objects')
  /\ sym' = SymMutation(objects', TRUE)
  /\ UNCHANGED <<selected_object, drag_data, clipboard_object, label_settings, next_id>>

\* ------------------------------------------------------------- undo / redo
\* (variant: undo also pops the last remaining snapshot)
UndoStacksPopLast(us, rs) ==
  IF Len(us) > 0 THEN <<Front(us), Append(rs, Last(us))>> ELSE <<us, rs>>

\* (variant: the popped snapshot is not kept for redo)
UndoStacksDrop(us, rs) ==
  IF Len(us) > 1 THEN <<Front(us), rs>> ELSE <<us, rs>>

\* the stacks after undo(): the top snapshot moves to the redo stack
UndoStacks(us, rs) ==
  IF Len(us) > 1 THEN <<Front(us), Append(rs, Last(us))>> ELSE <<us, rs>>

\* (variant: the snapshot popped by undo is restored, not the one below it)
UndoTargetPopped(us) == Last(us)

\* the snapshot undo() restores: the top of the stack after the pop
UndoTarget(us) == Last(Front(us))

\* (variant: redo leaves the snapshot on the redo stack)
RedoStacksKeep(us, rs) ==
  IF rs # <<>> THEN <<Append(us, Last(rs)), rs>> ELSE <<us, rs>>

\* (variant: redo clears the flags of the snapshot it moves back)
RedoStacksUnflag(us, rs) ==
  IF rs # <<>>
  THEN <<Append(us, [i \in 1..Len(Last(rs)) |->
                       [Last(rs)[i] EXCEPT !.selected = FALSE]]),
         Front(rs)>>
  ELSE <<us, rs>>

\* the stacks after redo(): the top of the redo stack moves back
RedoStacks(us, rs) ==
  IF rs # <<>> THEN <<Append(us, Last(rs)), Front(rs)>> ELSE <<us, rs>>

\* what undo()/redo() do to the Scene they restored from a snapshot: a deep
\* copy, selected_object = None, then redraw_objects()
RestoreScene(snapshot) == redraw_objects(snapshot)

undo ==
  /\ Record("undo")
  /\ sym' = SymUndo
  /\ UNCHANGED commits
  /\ undo_stack' = UndoStacks(undo_stack, redo_stack)[1]
  /\ redo_stack' = UndoStacks(undo_stack, redo_stack)[2]
  /\ IF Len(undo_stack) > 1
     THEN /\ objects' = RestoreScene(UndoTarget(undo_stack))
          /\ selected_object' = None
          /\ drag_data' = [drag_data EXCEPT !.item = ItemAfterReplace(@)]
          /\ focus_entry' = "none"
     ELSE UNCHANGED <<objects, selected_object, drag_data, focus_entry>>
  /\ UNCHANGED <<clipboard_object, label_settings, next_id>>

redo ==
  /\ Record("redo")
  /\ sym' = SymRedo
  /\ UNCHANGED commits
  /\ undo_stack' = RedoStacks(undo_stack, redo_stack)[1]
  /\ redo_stack' = RedoStacks(undo_stack, redo_stack)[2]
  /\ IF redo_stack # <<>>
     THEN /\ objects' = RestoreScene(Last(redo_stack))
          /\ selected_object' = None
          /\ drag_data' = [drag_data EXCEPT !.item = ItemAfterReplace(@)]
          /\ focus_entry' = "none"
     ELSE UNCHANGED <<objects, selected_object, drag_data, focus_entry>>
  /\ UNCHANGED <<clipboard_object, label_settings, next_id>>

\* --------------------------------------------------------- file operations
\* new_project, the confirmation dialog answered yes
new_project ==
  /\ Record("new_project")
  /\ objects' = <<>>
  /\ selected_object' = None
  /\ drag_data' = [drag_data EXCEPT !.item = ItemAfterReplace(@)]
  /\ label_settings' = LabelSettings
  /\ focus_entry' = "none"
  /\ undo_stack' = PushState(<<>>, <<>>)
  /\ redo_stack' = <<>>
  /\ commits' = commits + 1
  /\ sym' = SymMutation(<<>>, TRUE)
  /\ UNCHANGED <<clipboard_object, next_id>>

\* the Scene of a command file written earlier by export_to_file
ExportedScene ==
  << [ZPLObject("text", 10, 10, 100, 30, "Hello", 0) EXCEPT !.font_size = "20"],
     ZPLObject("rectangle", 10, 10, 30, 20, "", 0) >>

\* the command files the user picks in the dialog of import_zpl_file: an
\* empty file and a file written by export_to_file
ImportFiles == { <<>>, generate_zpl(ExportedScene, LabelSettings) }

\* what the decoder makes of each of these files
ImportResults == [content \in ImportFiles |-> parse_zpl_file(content)]

\* parsed_objects = ZPLParser.parse_zpl_file(zpl_content)
DecodeFile(content) ==
  IF content \in ImportFiles THEN ImportResults[content] ELSE parse_zpl_file(content)

ImportAnswers == {"yes", "no", "cancel"}

\* (variant: every object of one import gets the same identifier)
PostInitSame(parsed, used) ==
  [i \in 1..Len(parsed) |-> [parsed[i] EXCEPT !.id = used + 1]]

\* ZPLObject.__post_init__ on each object the decoder creates: a new
\* identifier per object, used being the number handed out before
PostInit(parsed, used) ==
  [i \in 1..Len(parsed) |-> [parsed[i] EXCEPT !.id = used + i]]

\* import_zpl_file: content is the text of the file chosen, answer the reply
\* to the replace / append / cancel dialog (asked only when the Scene is not
\* empty)
import_zpl_file(content, answer) ==
  LET parsed == DecodeFile(content)
      fresh  == PostInit(parsed, next_id)
      base   == IF objects # <<>> /\ answer = "yes" THEN <<>> ELSE objects
      new    == redraw_objects(base \o fresh)
      ref(r) == IF base = <<>> THEN ItemAfterReplace(r) ELSE r
  IN  /\ next_id' = next_id + Len(parsed)
      /\ seen' = [seen EXCEPT !.file = content, !.parsed = fresh]
      /\ UNCHANGED zpl_out
      /\ IF parsed # <<>> /\ ~(objects # <<>> /\ answer = "cancel")
         THEN /\ hist' = Append(hist, "import_zpl_file")
              /\ objects' = new
              /\ selected_object' = None
              /\ drag_data' = [drag_data EXCEPT !.item = ref(@)]
              /\ focus_entry' = "none"
              /\ save_state(new)
              /\ sym' = SymMutation(new, TRUE)
              /\ UNCHANGED <<clipboard_object, label_settings>>
         ELSE /\ hist' = Append(hist, "import_zpl_file_none")
              /\ NoCommit
              /\ UNCHANGED <<objects, selected_object, drag_data, clipboard_object,
                             label_settings, focus_entry, sym>>

\* the project files the user opens: the label settings and the objects as
\* save_project wrote them (identifiers of the session that saved them)
ProjectScenes ==
  LET T(x, y, id) == ZPLObject("text", x, y, 135, 30, "123456789", id)
      B(w, id)    == ZPLObject("barcode", 10, 20, w, 55, "123456789", id)
  IN  { <<>>,
        << T(10, 80, 101), B(120, 102) >>,
        << B(135, 101), T(10, 80, 102) >>,
        << B(137, 101), T(12, 83, 102) >>,
        << B(135, 101), T(13, 80, 102) >>,
        << B(135, 101), T(10, 80, 102), T(10, 80, 103) >>,
        << B(135, 101), ZPLObject("text", 10, 80, 75, 30, "Hello", 102) >>,
        << [B(135, 101) EXCEPT !.barcode_type = "39"] >>,
        << [ZPLObject("text", 10, 20, 50, 20, "Hello", 101)
              EXCEPT !.font_size = "20", !.font_type = "B", !.rotation = 90] >>,
        << [ZPLObject("text", 10, 20, 30, 12, "Hello", 101)
              EXCEPT !.font_size = "abc"] >>,
        << [ZPLObject("rectangle", 10, 20, 30, 40, "", 101) EXCEPT !.thickness = 3] >>,
        << ZPLObject("rectangle", -5, 20, 30, 40, "", 101) >>,
        << ZPLObject("image", 10, 20, 60, 60, "image.bmp", 101) >>,
        << ZPLObject("image", 10, 20, 60, 60, "", 101) >>,
        << ZPLObject("circle", 10, 20, 40, 40, "", 101),
           ZPLObject("line", 10, 20, 100, 0, "", 102) >> }

ProjectFiles == {[label_settings |-> LabelSettings, objects |-> sc] : sc \in ProjectScenes}

\* import_project with a file chosen: the settings and the objects of the file
\* replace those of the editor
import_project(project) ==
  LET new == redraw_objects(project.objects)
  IN  /\ Record("import_project")
      /\ label_settings' = project.label_settings
      /\ objects' = new
      /\ selected_object' = None
      /\ drag_data' = [drag_data EXCEPT !.item = ItemAfterReplace(@)]
      /\ focus_entry' = "none"
      /\ save_state(new)
      /\ sym' = SymMutation(new, TRUE)
      /\ UNCHANGED <<clipboard_object, next_id>>

\* project files that are valid JSON but hold an entry ZPLObject(**obj_dict)
\* rejects (a key it does not know, no obj_type): loaded are the objects
\* that precede the entry, with the identifiers of the session that saved them
BrokenProjectFiles ==
  {[label_settings |-> LabelSettings, loaded |-> sc] :
     sc \in { <<>>, << ZPLObject("circle", 10, 20, 40, 40, "", 101) >> }}

\* import_project with such a file chosen: the settings are loaded, the list
\* is cleared and filled up to the entry that raises TypeError; the except
\* clause shows the error, and selected_object, the panel and the history are
\* left as they were (none of the file's objects equals the object that was
\* selected, so the reference is one to an object outside the list)
import_project_error(project) ==
  /\ Record("import_project_error")
  /\ label_settings' = project.label_settings
  /\ objects' = project.loaded
  /\ selected_object' = IF selected_object = None THEN None ELSE Stale
  /\ drag_data' = [drag_data EXCEPT !.item = ItemAfterReplace(@)]
  /\ NoCommit
  /\ sym' = SymMutation(project.loaded, FALSE)
  /\ UNCHANGED <<clipboard_object, focus_entry, next_id>>

\* ------------------------------------------------------------ ZPL output
\* (variant: the encoder clears the selection flags of the Scene it reads)
EmitZplDeselect(name) ==
  /\ hist' = Append(hist, name)
  /\ zpl_out' = generate_zpl(objects, label_settings)
  /\ objects' = [i \in 1..Len(objects) |-> [objects[i] EXCEPT !.selected = FALSE]]
  /\ UNCHANGED <<selected_object, drag_data, clipboard_object, undo_stack,
                 redo_stack, label_settings, focus_entry, next_id, commits, sym, seen>>

\* zpl_code = self.generate_zpl(), handed to the file, the system clipboard
\* or a dialog by the handler called name
EmitZpl(name) ==
  /\ hist' = Append(hist, name)
  /\ zpl_out' = generate_zpl(objects, label_settings)
  /\ UNCHANGED <<objects, selected_object, drag_data, clipboard_object, undo_stack,
                 redo_stack, label_settings, focus_entry, next_id, commits, sym, seen>>

\* export_to_file: a file name was chosen in the dialog, or the dialog was
\* cancelled
export_to_file(chosen) ==
  IF chosen
  THEN EmitZpl("export_to_file")
  ELSE /\ Record("export_to_file_cancel")
       /\ UNCHANGED <<objects, selected_object, drag_data, clipboard_object,
                      undo_stack, redo_stack, label_settings, focus_entry, next_id,
                      commits, sym>>

copy_to_clipboard == EmitZpl("copy_to_clipboard")

preview_zpl == EmitZpl("preview_zpl")

\* zpl.endswith(suffix)
TextEndsWith(cs, suffix) ==
  Len(cs) >= Len(suffix) /\ SubSeq(cs, Len(cs) - Len(suffix) + 1, Len(cs)) = suffix

\* zpl.count(pat) and len(re.findall(pat, zpl)) for a pattern that cannot
\* overlap itself: the number of places where pat occurs
Count(cs, pat) ==
  Cardinality({i \in 1..(Len(cs) - Len(pat) + 1) :
                 SubSeq(cs, i, i + Len(pat) - 1) = pat})

\* the errors list of validate_zpl
ValidationErrors(zpl) ==
  (IF ~StartsWith(zpl, <<"^", "X", "A">>) THEN <<"must start with ^XA">> ELSE <<>>)
    \o (IF ~TextEndsWith(zpl, FormatEnd) THEN <<"must end with ^XZ">> ELSE <<>>)

\* (variant: a text without field origins is reported as unbalanced)
ValidationWarningsStrict(zpl) ==
  (IF Count(zpl, <<"^", "F", "O">>) = 0 THEN <<"unbalanced ^FO and ^FS">> ELSE <<>>)

\* the warnings list of validate_zpl
ValidationWarnings(zpl) ==
  (IF Count(zpl, <<"^", "F", "O">>) # Count(zpl, <<"^", "F", "S">>)
   THEN <<"unbalanced ^FO and ^FS">> ELSE <<>>)
    \o (IF Count(zpl, <<"^", "F", "D", "^", "F", "S">>) > 0
        THEN <<"empty text fields">> ELSE <<>>)

\* validate_zpl: the command text is generated and checked, the lists of
\* errors and warnings are shown in a message box
validate_zpl ==
  /\ hist' = Append(hist, "validate_zpl")
  /\ zpl_out' = generate_zpl(objects, label_settings)
  /\ seen' = [seen EXCEPT !.errors = ValidationErrors(zpl_out'),
                          !.warnings = ValidationWarnings(zpl_out')]
  /\ UNCHANGED <<objects, selected_object, drag_data, clipboard_object, undo_stack,
                 redo_stack, label_settings, focus_entry, next_id, commits, sym>>

\* show_label_settings.apply: the snap flag, grid size and orientation entered
apply_settings(snap, grid, orient) ==
  /\ Record("apply_settings")
  /\ label_settings' = [label_settings EXCEPT !.snap_to_grid = snap,
                                               !.grid_size = grid,
                                               !.orientation = orient]
  /\ objects' = redraw_objects(objects)
  /\ NoCommit
  /\ UNCHANGED <<selected_object, drag_data, clipboard_object, focus_entry,
                 next_id, sym>>

\* ----------------------------------------------------------- specification
\* the events of the host UI, with the inputs the model draws
EvAdd == \E t \in AddTypes : add_object(t)

EvClear == \E c \in BOOLEAN : clear_all(c)

EvClick == \E p \in ClickPoints : on_canvas_click(p[1], p[2])

EvDrag == \E p \in DragPoints : on_canvas_drag(p[1], p[2])

EvType == \E a \in EditAttrs, s \in EntryInputs : update_value(a, s)

EvCombo == \E c \in ComboInputs : combobox_value(c[1], c[2])

EvDialog == \E w \in DialogWidths : apply_changes(w)

EvImport ==
  \E content \in ImportFiles, answer \in ImportAnswers :
    import_zpl_file(content, answer)

EvSettings ==
  \E snap \in SnapInputs, g \in GridSizes :
    apply_settings(snap, g, label_settings.orientation)

\* the handlers are explored for MaxSteps invocations
Budget == Len(hist) < MaxSteps

Next ==
  \/ Budget /\ EvAdd
  \/ Budget /\ delete_selected
  \/ Budget /\ EvClear
  \/ Budget /\ copy_object
  \/ Budget /\ paste_object
  \/ Budget /\ bring_forward
  \/ Budget /\ send_backward
  \/ Budget /\ EvClick
  \/ Budget /\ EvDrag
  \/ Budget /\ on_canvas_release
  \/ Budget /\ EvType
  \/ Budget /\ focus_out
  \/ Budget /\ EvCombo
  \/ Budget /\ update_hri
  \/ Budget /\ EvDialog
  \/ Budget /\ undo
  \/ Budget /\ redo
  \/ Budget /\ new_project
  \/ Budget /\ EvImport
  \/ Budget /\ EvSettings

Spec == Init /\ [][Next]_vars

\* The editor close to the history capacity: a barcode was added to the new
\* editor and the user then, PreFill times, typed "abc" in its width Entry
\* (update_value ignores it) and left the Entry (focus_out commits a snapshot)
NearCapScene == select_object(<<ZPLObject("barcode", 50, 50, 120, 60, "123456789", 1)>>, 1)

InitNearCap ==
  /\ objects = NearCapScene
  /\ selected_object = 1
  /\ drag_data = [x |-> 0, y |-> 0, item |-> None]
  /\ clipboard_object = <<>>
  /\ undo_stack = <<<<>>>> \o [i \in 1..(PreFill + 1) |-> NearCapScene]
  /\ redo_stack = <<>>
  /\ label_settings = LabelSettings
  /\ focus_entry = "none"
  /\ next_id = 1
  /\ hist = <<>>
  /\ commits = PreFill + 2
  /\ sym = SymMutation(NearCapScene, TRUE)
  /\ seen = NoneSeen
  /\ zpl_out = <<>>

CapBudget == Len(hist) < CapSteps

NextNearCap ==
  \/ CapBudget /\ EvAdd
  \/ CapBudget /\ delete_selected
  \/ CapBudget /\ EvClear
  \/ CapBudget /\ copy_object
  \/ CapBudget /\ paste_object
  \/ CapBudget /\ bring_forward
  \/ CapBudget /\ send_backward
  \/ CapBudget /\ EvClick
  \/ CapBudget /\ EvDrag
  \/ CapBudget /\ on_canvas_release
  \/ CapBudget /\ EvType
  \/ CapBudget /\ focus_out
  \/ CapBudget /\ EvCombo
  \/ CapBudget /\ update_hri
  \/ CapBudget /\ EvDialog
  \/ CapBudget /\ undo
  \/ CapBudget /\ redo
  \/ CapBudget /\ new_project
  \/ CapBudget /\ EvImport
  \/ CapBudget /\ EvSettings

SpecNearCap == InitNearCap /\ [][NextNearCap]_vars

\* The history-bounds scenario: NumAdds add operations on the new editor,
\* then undo repeated past the point where it becomes a no-op
UndoTries == max_undo_steps + 5

AddPhase == Len(hist) < NumAdds /\ add_object("rectangle")

UndoPhase == Len(hist) >= NumAdds /\ Len(hist) < NumAdds + UndoTries /\ undo

NextAdds == AddPhase \/ UndoPhase

SpecAdds == Init /\ [][NextAdds]_vars

\* The editor used to lay objects out: every kind of object is added, the
\* grid is switched on and off with several grid sizes, objects are selected,
\* deleted and moved through the z-order, and operations are undone
EvAddAny == \E t \in ObjectTypes : add_object(t)

EvGrid ==
  \E snap \in BOOLEAN, g \in LayoutGrids :
    apply_settings(snap, g, label_settings.orientation)

LayoutBudget == Len(hist) < LayoutSteps

NextLayout ==
  \/ LayoutBudget /\ EvAddAny
  \/ LayoutBudget /\ EvGrid
  \/ LayoutBudget /\ EvClick
  \/ LayoutBudget /\ delete_selected
  \/ LayoutBudget /\ bring_forward
  \/ LayoutBudget /\ send_backward
  \/ LayoutBudget /\ undo

SpecLayout == Init /\ [][NextLayout]_vars

\* The editor used to move objects with the mouse: objects are added, their
\* x is typed in the panel, they are pressed, dragged and released, and the
\* result is undone
EvAddShape == \E t \in GestureTypes : add_object(t)

EvTypePosition == \E e \in GestureEntries : update_value(e[1], e[2])

EvPress == \E p \in GesturePoints : on_canvas_click(p[1], p[2])

EvMove == \E p \in GesturePoints : on_canvas_drag(p[1], p[2])

GestureBudget == Len(hist) < GestureSteps

NextGesture ==
  \/ GestureBudget /\ EvAddShape
  \/ GestureBudget /\ EvTypePosition
  \/ GestureBudget /\ EvPress
  \/ GestureBudget /\ EvMove
  \/ GestureBudget /\ on_canvas_release
  \/ GestureBudget /\ focus_out
  \/ GestureBudget /\ undo

SpecGesture == Init /\ [][NextGesture]_vars

\* The editor used to produce command text: every kind of object is added,
\* the orientation is chosen, objects are copied, additions are undone, and
\* the Scene is exported, copied as text, previewed and validated
EvOrient ==
  \E o \in Orientations :
    apply_settings(label_settings.snap_to_grid, label_settings.grid_size, o)

EvExport == \E chosen \in BOOLEAN : export_to_file(chosen)

EncodeBudget == Len(hist) < EncodeSteps

NextEncode ==
  \/ EncodeBudget /\ EvAddAny
  \/ EncodeBudget /\ EvOrient
  \/ EncodeBudget /\ copy_object
  \/ EncodeBudget /\ undo
  \/ EncodeBudget /\ EvExport
  \/ EncodeBudget /\ copy_to_clipboard
  \/ EncodeBudget /\ preview_zpl
  \/ EncodeBudget /\ validate_zpl

SpecEncode == Init /\ [][NextEncode]_vars


\* The editor used to carry a label through files: a project is opened, the
\* Scene is exported, copied as text, previewed and validated, and the
\* command file written by export_to_file is imported again
EvOpen == \E project \in ProjectFiles : import_project(project)

\* the content of the file export_to_file wrote, when the command text last
\* generated went to a file
WrittenFiles ==
  LET emits == {i \in 1..Len(hist) :
                  hist[i] \in {"export_to_file", "copy_to_clipboard",
                               "preview_zpl", "validate_zpl"}}
  IN  IF emits # {} /\ hist[Highest(emits)] = "export_to_file"
      THEN {zpl_out} ELSE {}

EvReimport ==
  \E content \in WrittenFiles, answer \in ImportAnswers :
    import_zpl_file(content, answer)

CodecBudget == Len(hist) < CodecSteps

NextCodec ==
  \/ CodecBudget /\ EvOpen
  \/ CodecBudget /\ EvExport
  \/ CodecBudget /\ copy_to_clipboard
  \/ CodecBudget /\ preview_zpl
  \/ CodecBudget /\ validate_zpl
  \/ CodecBudget /\ EvReimport

SpecCodec == Init /\ [][NextCodec]_vars

\* The decoder given command files of every make: objects are added and one
\* file of up to MaxLines lines is imported
\* the lines of the command files given to the decoder: two position
\* commands (the second with blanks around it), a position command with one
\* number, a font command, a font command whose font is a small letter, field
\* data, a box, a circle, bar parameters, the start of a Code 128 symbol, a
\* command the decoder does not know, a blank line
DecoderLines ==
  <<
     <<"^", "F", "O", "1", "0", ",", "2", "0">>,
     <<" ", " ", "^", "F", "O", "5", ",", "7", " ">>,
     <<"^", "F", "O", "9">>,
     <<"^", "A", "B", ",", "N", ",", "2", "0", ",", "2", "0">>,
     <<"^", "A", "b", ",", "N", ",", "2", "5">>,
     <<"^", "F", "D", "H", "e", "l", "l", "o", "^", "F", "S">>,
     <<"^", "G", "B", "3", "0", ",", "2", "0", ",", "3", "^", "F", "S">>,
     <<"^", "G", "C", "4", "0", ",", "2", "^", "F", "S">>,
     <<"^", "B", "Y", "3", ",", "2", ",", "1", "0", "0">>,
     <<"^", "B", "C", "N", ",", "5", "5", ",", "Y", ",", "N", ",", "Y">>,
     <<"^", "X", "A">>,
     <<" ", " ">> >>

\* "\n".join(lines)
RECURSIVE Unlines(_)
Unlines(lines) ==
  IF lines = <<>> THEN <<>>
  ELSE IF Len(lines) = 1 THEN lines[1]
  ELSE lines[1] \o <<"\n">> \o Unlines(Tail(lines))

DecoderFiles ==
  UNION {{Unlines([i \in 1..n |-> DecoderLines[f[i]]]) :
            f \in [1..n -> 1..Len(DecoderLines)]} : n \in 0..MaxLines}

EvDecode ==
  \E content \in DecoderFiles, answer \in ImportAnswers :
    /\ \A i \in 1..Len(hist) : hist[i] \notin {"import_zpl_file", "import_zpl_file_none"}
    /\ import_zpl_file(content, answer)

DecodeBudget == Len(hist) < DecodeSteps

NextDecode ==
  \/ DecodeBudget /\ EvAdd
  \/ DecodeBudget /\ EvDecode

SpecDecode == Init /\ [][NextDecode]_vars

\* The editor used to size objects: every kind of object is added and
\* selected, its width, height, diameter or bar height is typed in the panel
\* or set in the properties dialog, the Entry is left, and edits are undone
SizeAttrs == {"width", "height"}

EvTypeSize == \E a \in SizeAttrs, s \in EntryInputs : update_value(a, s)

EvDiameter == \E s \in EntryInputs : set_diameter(s)

EvBarHeight == \E s \in EntryInputs : set_bar_height(s)

PanelBudget == Len(hist) < PanelSteps

NextPanel ==
  \/ PanelBudget /\ EvAddAny
  \/ PanelBudget /\ EvClick
  \/ PanelBudget /\ EvTypeSize
  \/ PanelBudget /\ EvDiameter
  \/ PanelBudget /\ EvBarHeight
  \/ PanelBudget /\ focus_out
  \/ PanelBudget /\ EvDialog
  \/ PanelBudget /\ undo

SpecPanel == Init /\ [][NextPanel]_vars

\* The editor used to move an object on a grid: a rectangle was added, its
\* X and Y were typed in the panel (a commit at each focus loss), and the
\* snap flag and the grid size were set in the label settings; the object is
\* then pressed at its corner, dragged by small deltas and released
SnapCoords == (-MaxCoord)..MaxCoord

SnapGrids == 1..MaxGrid

SnapDeltas == {<<0, 0>>, <<1, 0>>, <<0, -1>>}

SnapScene(x, y) == select_object(<<ZPLObject("rectangle", x, y, 80, 40, "", 1)>>, 1)

InitSnap ==
  \E x \in SnapCoords, y \in SnapCoords, g \in SnapGrids, snap \in BOOLEAN :
    /\ objects = SnapScene(x, y)
    /\ selected_object = 1
    /\ drag_data = [x |-> 0, y |-> 0, item |-> None]
    /\ clipboard_object = <<>>
    /\ undo_stack = << <<>>, SnapScene(AddAnchor, AddAnchor), SnapScene(x, AddAnchor),
                       SnapScene(x, y) >>
    /\ redo_stack = <<>>
    /\ label_settings = [LabelSettings EXCEPT !.snap_to_grid = snap, !.grid_size = g]
    /\ focus_entry = "none"
    /\ next_id = 1
    /\ hist = <<>>
    /\ commits = 4
    /\ sym = SymMutation(SnapScene(x, y), TRUE)
    /\ seen = NoneSeen
    /\ zpl_out = <<>>

EvGrab == objects # <<>> /\ on_canvas_click(objects[1].x, objects[1].y)

EvNudge == \E d \in SnapDeltas : on_canvas_drag(drag_data.x + d[1], drag_data.y + d[2])

SnapBudget == Len(hist) < SnapSteps

NextSnap ==
  \/ SnapBudget /\ EvGrab
  \/ SnapBudget /\ EvNudge
  \/ SnapBudget /\ on_canvas_release

SpecSnap == InitSnap /\ [][NextSnap]_vars

\* The editor used to open projects: objects are added and selected, project
\* files that load and project files that fail to load are opened, and the
\* selected object is deleted or moved through the z-order
EvOpenBroken == \E project \in BrokenProjectFiles : import_project_error(project)

OpenBudget == Len(hist) < OpenSteps

NextOpen ==
  \/ OpenBudget /\ EvAdd
  \/ OpenBudget /\ EvClick
  \/ OpenBudget /\ EvOpen
  \/ OpenBudget /\ EvOpenBroken
  \/ OpenBudget /\ delete_selected
  \/ OpenBudget /\ bring_forward
  \/ OpenBudget /\ send_backward
  \/ OpenBudget /\ undo

SpecOpen == Init /\ [][NextOpen]_vars

\* --------------------------------------------------------------- vocabulary
LastOp == IF hist = <<>> THEN "init" ELSE Last(hist)

\* the step is one invocation of the handler called name
Step(name) == hist' = Append(hist, name)

\* hist ends with the handler names of suffix
EndsWith(suffix) ==
  /\ Len(hist) >= Len(suffix)
  /\ SubSeq(hist, Len(hist) - Len(suffix) + 1, Len(hist)) = suffix

Selected(objs) == {i \in 1..Len(objs) : objs[i].selected}

TypeOK ==
  /\ selected_object \in (-1)..Len(objects)
  /\ drag_data.item \in (-1)..Len(objects)
  /\ Len(clipboard_object) <= 1
  /\ focus_entry # "none" => selected_object # None

\* ------------------------------------------------------------------ claims
\* the undo stack after a commit of scene on the stack us, written out
Committed(us, scene) ==
  IF Len(us) >= max_undo_steps
  THEN Append(Tail(us), scene)
  ELSE Append(us, scene)

\* C1: the undo stack never holds more than 50 snapshots, and a commit made on
\* a full stack drops exactly the oldest snapshot and keeps the other 49 in
\* order below the new one (new_project empties the stack before it commits).
C1_UndoStackBounded ==
  /\ [](Len(undo_stack) <= max_undo_steps)
  /\ [][(commits' > commits /\ ~Step("new_project"))
          => /\ undo_stack' = Committed(undo_stack, objects')
             /\ (Len(undo_stack) = max_undo_steps
                   => /\ Len(undo_stack') = max_undo_steps
                      /\ SubSeq(undo_stack', 1, max_undo_steps - 1) = Tail(undo_stack))]_vars

\* a full stack from which the initial empty snapshot has been evicted
C1_Witness ==
  /\ Len(undo_stack) = max_undo_steps
  /\ undo_stack[1] # <<>>
  /\ commits > max_undo_steps

\* C2: the undo stack holds at least one snapshot in every reachable state.
C2_UndoStackNonEmpty == Len(undo_stack) >= 1

\* undo was called twice: the first popped down to the last snapshot, the
\* second found one snapshot and left it
C2_Witness ==
  /\ EndsWith(<<"undo", "undo">>)
  /\ Len(undo_stack) = 1
  /\ Len(redo_stack) = 1

C4_Undo ==
  [][Step("undo")
       => IF Len(undo_stack) <= 1
          THEN UNCHANGED <<objects, undo_stack, redo_stack>>
          ELSE /\ undo_stack' = Front(undo_stack)
               /\ redo_stack' = Append(redo_stack, Last(undo_stack))
               /\ objects' = Last(undo_stack')]_vars

\* an undo that restored the Scene below the last commit
C4_Witness ==
  /\ LastOp = "undo"
  /\ sym.moved
  /\ redo_stack # <<>>
  /\ objects # <<>>
  /\ objects = Last(undo_stack)

\* C5: redo with an empty redo stack changes neither the Scene nor the stacks;
\* otherwise it moves the top snapshot of the redo stack onto the undo stack
\* and the Scene becomes a copy of it, the new top of the undo stack.
C5_Redo ==
  [][Step("redo")
       => IF redo_stack = <<>>
          THEN UNCHANGED <<objects, undo_stack, redo_stack>>
          ELSE /\ redo_stack' = Front(redo_stack)
               /\ undo_stack' = Append(undo_stack, Last(redo_stack))
               /\ objects' = Last(redo_stack)
               /\ objects' = Last(undo_stack')]_vars

\* a redo that restored an undone Scene, followed by a redo that found the
\* redo stack empty
C5_Witness ==
  /\ EndsWith(<<"undo", "redo", "redo">>)
  /\ redo_stack = <<>>
  /\ Len(undo_stack) >= 2
  /\ objects # <<>>
  /\ objects = Last(undo_stack)

\* C6: after an undo or redo that is not a no-op nothing is selected: the
\* editor has no selected object and no object of the Scene is flagged.
C6_SelectionCleared ==
  [][((Step("undo") /\ Len(undo_stack) > 1) \/ (Step("redo") /\ redo_stack # <<>>))
       => /\ selected_object' = None
          /\ Selected(objects') = {}]_vars

\* C7: every commit leaves the redo stack empty, and a redo that finds it
\* empty changes nothing.
C7_CommitClearsRedo ==
  [][/\ commits' > commits => redo_stack' = <<>>
     /\ (Step("redo") /\ redo_stack = <<>>)
          => UNCHANGED <<objects, selected_object, undo_stack, redo_stack>>]_vars

\* undo, then a committed add, then a redo that found nothing to redo
C7_Witness ==
  /\ EndsWith(<<"undo", "add_object", "redo">>)
  /\ sym.phase = "off"
  /\ redo_stack = <<>>
  /\ Len(undo_stack) >= 2

\* C8: after NumAdds add operations on the new editor the undo stack holds
\* exactly 50 snapshots; the snapshots older than the 50 retained ones are
\* never restored by undo, which stops at the oldest retained snapshot.
Evicted == NumAdds + 1 - max_undo_steps

C8_HistoryBounds ==
  /\ Len(hist) = NumAdds => Len(undo_stack) = max_undo_steps
  /\ Len(hist) >= NumAdds => Len(objects) >= Evicted
  /\ Len(hist) >= NumAdds + max_undo_steps - 1
       => /\ Len(undo_stack) = 1
          /\ objects = undo_stack[1]
          /\ Len(objects) = Evicted

\* undo was repeated until it became a no-op
C8_Witness ==
  /\ Len(hist) = NumAdds + max_undo_steps + 1
  /\ Len(undo_stack) = 1
  /\ Len(redo_stack) = max_undo_steps - 1
  /\ Len(objects) = Evicted

\* C9 as stated: add, delete, clear, reorder and paste commit one snapshot
\* when they change the Scene and none when they do not.
SceneOps ==
  {"add_object", "delete_selected", "clear_all", "clear_all_cancel",
   "paste_object", "bring_forward", "send_backward"}

C9_Original ==
  [][(\E n \in SceneOps : Step(n))
       => commits' = commits + (IF objects' # objects THEN 1 ELSE 0)]_vars

\* C9 amended: add, delete, reorder and paste commit exactly one snapshot
\* when they change the Scene and none when they are a no-op; clear commits
\* exactly one snapshot whenever it is confirmed, also on an empty Scene.
C9_OneCommit ==
  [][(\E n \in SceneOps : Step(n))
       => IF Step("clear_all") \/ (~Step("clear_all_cancel") /\ objects' # objects)
          THEN /\ commits' = commits + 1
               /\ undo_stack' = Committed(undo_stack, objects')
          ELSE UNCHANGED <<commits, objects, undo_stack, redo_stack>>]_vars

\* a delete that removed the object and committed, then a delete with nothing
\* selected
C9_Witness ==
  /\ hist = <<"add_object", "delete_selected", "delete_selected">>
  /\ commits = 3
  /\ Len(undo_stack) = 3

\* C10: at most one object of the Scene has its selection flag set.
C10_SingleSelection == Cardinality(Selected(objects)) <= 1

\* two objects, the lower one selected by a click
C10_Witness ==
  /\ LastOp = "on_canvas_click"
  /\ Len(objects) >= 2
  /\ Selected(objects) = {1}

\* the identifiers of the objects of a Scene, in z-order
Ids(objs) == [i \in 1..Len(objs) |-> objs[i].id]

NoDuplicateIds(objs) ==
  \A i, j \in 1..Len(objs) : i # j => objs[i].id # objs[j].id

\* C11: in every reachable state no two objects of the Scene share an
\* identifier (identifiers generated by __post_init__ being new ones).
C11_UniqueIds == NoDuplicateIds(objects)

\* a Scene of several objects built by an import or a paste, some operation
\* having restored or extended it since
C11_Witness ==
  /\ Len(objects) >= 2
  /\ \E i \in 1..Len(hist) : hist[i] \in {"import_zpl_file", "paste_object"}
  /\ LastOp \in {"import_zpl_file", "paste_object", "redo", "add_object"}
  /\ Len(hist) >= 3

\* C12: a paste appends one object whose identifier differs from the
\* identifier of every object already in the Scene, placed PasteOffset right
\* of and below the position the source had when it was copied, every other
\* field being the one the source had then; also for a paste that follows
\* another paste of the same clipboard content.
C12_Paste ==
  [][(Step("paste_object") /\ clipboard_object # <<>>)
       => /\ Len(objects') = Len(objects) + 1
          /\ Ids(SubSeq(objects', 1, Len(objects))) = Ids(objects)
          /\ \A i \in 1..Len(objects) : Last(objects').id # objects[i].id
          /\ seen.copied # <<>>
          /\ Last(objects') =
               [seen.copied[1] EXCEPT !.x = @ + PasteOffset, !.y = @ + PasteOffset,
                                      !.id = Last(objects').id]]_vars

\* the same clipboard content was pasted twice in a row: both clones lie at
\* the same offset from the source and have identifiers of their own
C12_Witness ==
  /\ EndsWith(<<"copy_object", "paste_object", "paste_object">>)
  /\ Len(objects) >= 3
  /\ objects[Len(objects)].x = seen.copied[1].x + PasteOffset
  /\ objects[Len(objects) - 1].x = seen.copied[1].x + PasteOffset
  /\ objects[Len(objects)].id # objects[Len(objects) - 1].id

\* the objects with every selection flag cleared
Unflagged(objs) == [i \in 1..Len(objs) |-> [objs[i] EXCEPT !.selected = FALSE]]

\* v is a multiple of g nearest to x
NearestMultiple(v, x, g) == v % g = 0 /\ 2 * Abs(v - x) <= g

\* C13: add appends exactly one object on top of the z-order; the objects
\* already present keep their fields and their order (only their selection
\* flags are cleared); the new object lies at the grid-snap of the anchor
\* (50,50) and is the only selected object.
C13_Add ==
  [][Step("add_object")
       => LET n   == Len(objects)
              new == objects'[n + 1]
              g   == label_settings.grid_size
          IN  /\ Len(objects') = n + 1
              /\ SubSeq(objects', 1, n) = Unflagged(objects)
              /\ <<new.x, new.y>> = snap_to_grid(label_settings, AddAnchor, AddAnchor)
              /\ new.x = new.y
              /\ IF label_settings.snap_to_grid
                 THEN NearestMultiple(new.x, AddAnchor, g)
                 ELSE new.x = AddAnchor
              /\ Selected(objects') = {n + 1}
              /\ selected_object' = n + 1]_vars

\* an object added on a grid that moves the anchor, above an object that was
\* selected before
C13_Witness ==
  /\ LastOp = "add_object"
  /\ Len(objects) >= 2
  /\ label_settings.snap_to_grid
  /\ objects[Len(objects)].x # AddAnchor
  /\ Selected(objects) = {Len(objects)}

\* C14: delete removes the selected object and no other, keeps the order of
\* the rest and leaves nothing selected; with no selected object it changes
\* neither the Scene nor the history stacks.
C14_Delete ==
  [][Step("delete_selected")
       => IF selected_object # None
          THEN /\ Len(objects') = Len(objects) - 1
               /\ \A i \in 1..Len(objects') :
                    objects'[i] = IF i < selected_object THEN objects[i]
                                                         ELSE objects[i + 1]
               /\ selected_object' = None
               /\ Selected(objects') = {}
          ELSE UNCHANGED <<objects, selected_object, undo_stack, redo_stack>>]_vars

\* the selected object was moved below another one and then deleted: the
\* other one stays, nothing is selected
C14_Witness ==
  /\ hist = <<"add_object", "add_object", "send_backward", "delete_selected">>
  /\ Ids(objects) = <<1>>
  /\ selected_object = None
  /\ Selected(objects) = {}

\* C15: bring_forward swaps the selected object with the one right above it,
\* send_backward with the one right below; every other object keeps its
\* index; at the top (forward) or the bottom (backward), and with nothing
\* selected, the Scene and the history stacks are unchanged.
C15_Reorder ==
  [][\A dir \in {1, -1} :
       Step(IF dir = 1 THEN "bring_forward" ELSE "send_backward")
         => LET k == selected_object
            IN  IF k # None /\ k + dir \in 1..Len(objects)
                THEN /\ Len(objects') = Len(objects)
                     /\ \A i \in 1..Len(objects) :
                          objects'[i] = IF i = k THEN objects[k + dir]
                                        ELSE IF i = k + dir THEN objects[k]
                                        ELSE objects[i]
                     /\ selected_object' = k + dir
                ELSE UNCHANGED <<objects, selected_object, undo_stack, redo_stack>>]_vars

\* the top object of three went one step down, the bottom one staying put
C15_Witness ==
  /\ hist = <<"add_object", "add_object", "add_object", "send_backward">>
  /\ selected_object = 2
  /\ Ids(objects) = <<1, 3, 2>>

\* the handlers run since the last press on an object are drags only
Dragging ==
  /\ seen.at >= 1
  /\ \A i \in (seen.at + 1)..Len(hist) : hist[i] = "on_canvas_drag"

\* a gesture just ended: press on an object, drags, release, nothing else
GestureEnded ==
  /\ seen.at >= 1
  /\ LastOp = "on_canvas_release"
  /\ \A i \in (seen.at + 1)..(Len(hist) - 1) : hist[i] = "on_canvas_drag"

\* the object pressed is back where it was when the gesture began
BackAtPress(objs) ==
  /\ Len(objs) = Len(seen.press)
  /\ objs[seen.pressed].x = seen.press[seen.pressed].x
  /\ objs[seen.pressed].y = seen.press[seen.pressed].y

\* the drag deltas and the release of a gesture, as C16 states them
GestureSteps_C16 ==
  /\ (Dragging /\ Step("on_canvas_drag"))
       => /\ UNCHANGED <<undo_stack, redo_stack, commits>>
          /\ <<objects'[seen.pressed].x, objects'[seen.pressed].y>> =
               snap_to_grid(label_settings,
                            objects[seen.pressed].x + (drag_data'.x - drag_data.x),
                            objects[seen.pressed].y + (drag_data'.y - drag_data.y))
  /\ (Dragging /\ Step("on_canvas_release"))
       => /\ commits' = commits + 1
          /\ undo_stack' = Committed(undo_stack, objects)
          /\ Last(Front(undo_stack')) = seen.base
          /\ UNCHANGED objects

\* C16: the deltas of a drag gesture move the object and leave the history
\* stacks alone, the release commits exactly one snapshot (no snapshot holds
\* an intermediate position), and one undo after the release puts the object
\* back at its pre-gesture position.
C16_DragGesture ==
  [][/\ GestureSteps_C16
     /\ (GestureEnded /\ Step("undo")) => BackAtPress(objects')]_vars

\* the step changes a field other than the selection flag of some object,
\* the Scene keeping its objects and their order
PropertyEdited ==
  /\ Ids(objects') = Ids(objects)
  /\ Unflagged(objects') # Unflagged(objects)

\* one snapshot, of the Scene as the step leaves it, is committed
OneCommit ==
  /\ commits' = commits + 1
  /\ undo_stack' = Committed(undo_stack, objects')
  /\ redo_stack' = <<>>

\* what C17 says of keystrokes, focus loss and the toggle commands
LiveEdits_C17 ==
  /\ Step("update_value") => UNCHANGED <<undo_stack, redo_stack, commits>>
  /\ Step("focus_out") => OneCommit /\ UNCHANGED objects
  /\ (Step("combobox_value") /\ objects' # objects) => OneCommit
  /\ (Step("combobox_value") /\ objects' = objects)
       => UNCHANGED <<undo_stack, redo_stack, commits>>
  /\ Step("update_hri") => OneCommit /\ PropertyEdited

Reverse(q) == [i \in 1..Len(q) |-> q[Len(q) + 1 - i]]

\* every stored snapshot, oldest state first: the undo stack, then the redo
\* stack from its top down
Pile(us, rs) == us \o Reverse(rs)

\* C18: a stored snapshot is never altered. A step that neither commits,
\* undoes nor redoes leaves both stacks as they are, whatever it does to the
\* live Scene (also right after an undo or redo restored the top snapshot);
\* a commit keeps the snapshots below the new one (but for the evicted
\* oldest); undo and redo move one snapshot between the stacks unaltered.
C18_SnapshotsImmutable ==
  [][/\ (commits' = commits /\ ~Step("undo") /\ ~Step("redo"))
          => UNCHANGED <<undo_stack, redo_stack>>
     /\ (commits' > commits /\ ~Step("new_project"))
          => Front(undo_stack') = IF Len(undo_stack) >= max_undo_steps
                                  THEN Tail(undo_stack) ELSE undo_stack
     /\ (Step("undo") \/ Step("redo"))
          => /\ Pile(undo_stack', redo_stack') = Pile(undo_stack, redo_stack)
             /\ Len(undo_stack') - Len(undo_stack) \in {-1, 0, 1}]_vars

\* undo restored a snapshot holding a selected object, then a click on the
\* empty canvas cleared the flag in the live Scene: the snapshot keeps it
C18_Witness ==
  /\ EndsWith(<<"undo", "on_canvas_click">>)
  /\ objects # <<>>
  /\ Selected(objects) = {}
  /\ Selected(Last(undo_stack)) # {}
  /\ Unflagged(Last(undo_stack)) = objects

\* the handlers that call generate_zpl
Encoders == {"export_to_file", "copy_to_clipboard", "preview_zpl", "validate_zpl"}

\* the command text opens with ^XA and closes with ^XZ and a line break
Framed(zpl) ==
  /\ Len(zpl) >= 7
  /\ SubSeq(zpl, 1, 3) = <<"^", "X", "A">>
  /\ SubSeq(zpl, Len(zpl) - 3, Len(zpl)) = <<"^", "X", "Z", "\n">>

\* C19: for the Scene and the label settings of every reachable state, empty
\* Scene included, the encoder's output starts with ^XA and ends with ^XZ
\* followed by a line break; so does every text the handlers produced.
C19_Framed ==
  /\ Framed(generate_zpl(objects, label_settings))
  /\ LastOp \in Encoders => Framed(zpl_out)

\* the empty Scene was encoded under the Landscape orientation: the output
\* is the two markers around the orientation command
C19_Witness ==
  /\ LastOp \in Encoders
  /\ objects = <<>>
  /\ label_settings.orientation = "Landscape"
  /\ zpl_out = <<"^", "X", "A", "\n", "^", "P", "O", "I", "\n", "^", "X", "Z", "\n">>

\* C20: a handler that encodes (export, copy, preview, validate) leaves the
\* Scene, the selection, the clipboard slot, both history stacks and the
\* label settings unchanged and produces the text the encoder gives for that
\* Scene and those settings; encoding again at once gives the same text.
C20_EncoderPure ==
  [][(\E h \in Encoders : Step(h))
       => /\ UNCHANGED <<objects, selected_object, clipboard_object, undo_stack,
                         redo_stack, label_settings, commits>>
          /\ zpl_out' = generate_zpl(objects, label_settings)
          /\ LastOp \in Encoders => zpl_out' = zpl_out]_vars

\* a Scene with a selected object and a filled clipboard was encoded twice
C20_Witness ==
  /\ Len(hist) >= 2
  /\ hist[Len(hist) - 1] \in Encoders
  /\ LastOp \in Encoders
  /\ hist[Len(hist) - 1] # LastOp
  /\ selected_object # None
  /\ clipboard_object # <<>>
  /\ Len(zpl_out) > Len(FormatStart) + Len(FormatEnd)

\* ------------------------------------------------ encoder and decoder claims
\* the Scene of the example: a Text "123456789" at (10,80) and a Barcode
\* "123456789" at (10,20) of height 55, in either order
ExamplePair(objs) ==
  /\ Len(objs) = 2
  /\ \E t \in 1..2, b \in 1..2 :
       /\ objs[t].obj_type = "text" /\ objs[t].text = "123456789"
       /\ objs[t].x = 10 /\ objs[t].y = 80
       /\ objs[b].obj_type = "barcode" /\ objs[b].text = "123456789"
       /\ objs[b].x = 10 /\ objs[b].y = 20 /\ objs[b].height = 55

\* the command text holds one field-data command and neither the position
\* nor the font command of a Text
OnlyBarcodeField(zpl) ==
  /\ Count(zpl, <<"^", "F", "D">>) = 1
  /\ Count(zpl, <<"^", "F", "O">>) = 1
  /\ Count(zpl, <<"^", "A">>) = 0
  /\ Count(zpl, <<"^", "B", "Y">>) = 1

\* C21 as stated: whenever the Scene is the pair of the example, the command
\* text holds the Barcode's field data only.
C21_Original ==
  LastOp \in Encoders /\ ExamplePair(objects) => OnlyBarcodeField(zpl_out)

\* C21: when the Scene is the pair of the example and the widths of the Text
\* and the Barcode differ by at most 2, the command text holds the Barcode's
\* block only: the Text's position, font and field-data commands are left out.
C21_Suppression ==
  LastOp \in Encoders /\ ExamplePair(objects)
     /\ Abs(objects[1].width - objects[2].width) <= 2
  => OnlyBarcodeField(zpl_out)

C21_Witness ==
  /\ hist = <<"import_project", "export_to_file">>
  /\ ExamplePair(objects)
  /\ Abs(objects[1].width - objects[2].width) <= 2
  /\ OnlyBarcodeField(zpl_out)

\* object j of objs is a Text with the text of the Barcode at position i that
\* lies right below it: x within 2, width within 2, y within 3 of
\* barcode.y + barcode.height + 5
Below(objs, i, j) ==
  /\ objs[i].obj_type = "barcode"
  /\ objs[j].obj_type = "text"
  /\ objs[j].text = objs[i].text
  /\ Abs(objs[j].x - objs[i].x) <= 2
  /\ Abs(objs[j].width - objs[i].width) <= 2
  /\ Abs(objs[j].y - (objs[i].y + objs[i].height + 5)) <= 3

\* the positions of the Texts that are, for some Barcode, the first Text in
\* Scene order lying right below it
Suppressed(objs) ==
  {j \in 1..Len(objs) :
     \E i \in 1..Len(objs) :
       Below(objs, i, j) /\ \A k \in 1..(j - 1) : ~Below(objs, i, k)}

\* the blocks of the objects from position j on, those at the positions out
\* left out
RECURSIVE BlocksFrom(_, _, _)
BlocksFrom(objs, out, j) ==
  IF j > Len(objs) THEN <<>>
  ELSE (IF j \in out THEN <<>> ELSE EncodeObject(objs[j]))
         \o BlocksFrom(objs, out, j + 1)

\* C22: the command text is made of the blocks of all objects but the Texts
\* that are, for some Barcode, the first Text in Scene order with the
\* Barcode's text lying right below it; so the field-data commands number the
\* Texts and Barcodes less the suppressed Texts, and no more Texts are
\* suppressed than there are Barcodes.
C22_Deduplication ==
  LastOp \in Encoders =>
    /\ zpl_out = FormatStart
                   \o (IF label_settings.orientation = "Landscape"
                       THEN InvertOrientation ELSE <<>>)
                   \o BlocksFrom(objects, Suppressed(objects), 1)
                   \o FormatEnd
    /\ Count(zpl_out, <<"^", "F", "D">>) =
         Cardinality({j \in 1..Len(objects) :
                        objects[j].obj_type \in {"text", "barcode"}})
           - Cardinality(Suppressed(objects))
    /\ Cardinality(Suppressed(objects)) <=
         Cardinality({i \in 1..Len(objects) : objects[i].obj_type = "barcode"})

\* a Barcode with two Texts right below it: the first is left out, the second
\* is encoded
C22_Witness ==
  /\ LastOp = "copy_to_clipboard"
  /\ Len(objects) = 3
  /\ Suppressed(objects) = {2}
  /\ Below(objects, 1, 3)
  /\ Count(zpl_out, <<"^", "F", "D">>) = 2

\* the symbologies the editor offers and generate_zpl knows
BarcodeTypes == {"128", "39", "93", "I25", "EAN13", "EAN8", "UPCA", "UPCE"}

\* the lines of a block are a position command, a bar-parameters command, a
\* symbol command and a field-data command, in that order
BarcodeBlock(block) ==
  LET lines == SplitLines(block)
  IN  /\ Len(lines) = 5
      /\ StartsWith(lines[1], <<"^", "F", "O">>)
      /\ StartsWith(lines[2], <<"^", "B", "Y">>)
      /\ StartsWith(lines[3], <<"^", "B">>) /\ ~StartsWith(lines[3], <<"^", "B", "Y">>)
      /\ StartsWith(lines[4], <<"^", "F", "D">>)
      /\ lines[5] = <<>>

\* C23: every Barcode of the Scene has one of the eight symbol types, so its
\* block in the command text is one position command, one bar-parameters
\* command, one symbol command and one field-data command, in that order.
C23_SymbolTypes ==
  \A i \in 1..Len(objects) :
    objects[i].obj_type = "barcode" =>
      /\ objects[i].barcode_type \in BarcodeTypes
      /\ BarcodeBlock(EncodeObject(objects[i]))

\* C24 as stated: Images without a reference name add no command line, so a
\* Scene made of such Images only is encoded as the bare frame.
C24_ImageOmitted ==
  LastOp \in Encoders
     /\ (\A i \in 1..Len(objects) :
           objects[i].obj_type = "image" /\ objects[i].text = "")
  => zpl_out = FormatStart \o FormatEnd

\* the command text with nothing between the start and the end marker
MinimalText == <<"^", "X", "A", "\n", "^", "X", "Z", "\n">>

\* C25: validating the empty Scene (portrait), whose command text is the
\* start marker followed by the end marker, shows no error and no warning.
C25_ValidatorMinimal ==
  LastOp = "validate_zpl" /\ objects = <<>> /\ label_settings.orientation = "Portrait"
  => /\ zpl_out = MinimalText
     /\ seen.errors = <<>>
     /\ seen.warnings = <<>>

C25_Witness ==
  /\ hist = <<"import_project", "validate_zpl">>
  /\ objects = <<>>
  /\ zpl_out = MinimalText
  /\ seen.errors = <<>>
  /\ seen.warnings = <<>>

\* the step is an import of the command text of the live Scene: encode, then
\* decode
RoundTrip ==
  /\ \/ hist' = Append(hist, "import_zpl_file")
     \/ hist' = Append(hist, "import_zpl_file_none")
  /\ seen'.file = generate_zpl(objects, label_settings)

\* the Scene objs is one object of the given kind
OneOf(objs, kind) == Len(objs) = 1 /\ objs[1].obj_type = kind

\* C26 as stated: the command text of a Scene of one Rectangle decodes to one
\* Rectangle with the same x, y, width, height and border thickness.
C26_RectangleRoundTrip ==
  [][RoundTrip /\ OneOf(objects, "rectangle") =>
       /\ OneOf(seen'.parsed, "rectangle")
       /\ seen'.parsed[1].x = objects[1].x
       /\ seen'.parsed[1].y = objects[1].y
       /\ seen'.parsed[1].width = objects[1].width
       /\ seen'.parsed[1].height = objects[1].height
       /\ seen'.parsed[1].thickness = objects[1].thickness]_vars

\* the geometry the decoder gives every Text and every Barcode, and the
\* rotation it leaves at the default
DecoderDefaults(parsed) ==
  \A k \in 1..Len(parsed) :
    /\ parsed[k].rotation = 0
    /\ parsed[k].obj_type = "text" => parsed[k].width = 100 /\ parsed[k].height = 30
    /\ parsed[k].obj_type = "barcode" => parsed[k].width = 120 /\ parsed[k].height = 60

LeadingDigit(s) == Chars(s) # <<>> /\ Chars(s)[1] \in Digits

Decoded == [k \in 1..Len(seen.parsed) |-> [seen.parsed[k] EXCEPT !.id = 0]]

\* the commands the decoder recognises
CommandPrefixes ==
  { <<"^", "F", "O">>, <<"^", "A">>, <<"^", "F", "D">>,
    <<"^", "G", "B">>, <<"^", "G", "C">>, <<"^", "B">> }

Recognised(line) == \E p \in CommandPrefixes : StartsWith(Strip(line), p)

\* the command text without its unrecognised lines
RecognisedOnly(content) == Unlines(SelectSeq(SplitLines(content), Recognised))

\* C28: for every text imported the decoder returns a sequence of objects
\* (Texts, Rectangles, Circles and Barcodes at natural coordinates, at most
\* one per recognised line); the unrecognised lines add no object and change
\* no context: the result is that of the text without them; a text with no
\* recognised line gives the empty sequence.
C28_DecoderTotal ==
  LET lines == SplitLines(seen.file)
  IN  /\ Decoded = parse_zpl_file(seen.file)
      /\ \A k \in 1..Len(Decoded) :
           /\ Decoded[k].obj_type \in {"text", "rectangle", "circle", "barcode"}
           /\ Decoded[k].x \in Nat /\ Decoded[k].y \in Nat
           /\ Decoded[k].width \in Nat /\ Decoded[k].height \in Nat
      /\ Len(Decoded) <= Len(SelectSeq(lines, Recognised))
      /\ Decoded = parse_zpl_file(RecognisedOnly(seen.file))
      /\ (\A i \in 1..Len(lines) : ~Recognised(lines[i])) => Decoded = <<>>

\* after an addition, a file of an unknown command, a position command with
\* one number and a field-data line was imported and gave one Text at (0,0)
C28_Witness ==
  /\ hist = <<"add_object", "import_zpl_file">>
  /\ seen.file = Unlines(<<DecoderLines[11], DecoderLines[3], DecoderLines[6]>>)
  /\ OneOf(Decoded, "text")
  /\ Decoded[1].x = 0

\* the line starts a symbol: ^B and a symbology letter or digit; ^BY sets
\* the bar parameters
SymbolStart(line) ==
  LET l == Strip(line)
  IN  /\ StartsWith(l, <<"^", "B">>)
      /\ Len(l) >= 3
      /\ l[3] \in CapitalsAndDigits \ {"Y"}

\* the code captured from a symbol-start line
SymbolCode(line) == Str(BarcodeMatch(Strip(line)))

IsBarcode(o) == o.obj_type = "barcode"

\* C29 as stated: the Barcodes decoded are one per symbol-start line of the
\* text, in order, each with the code of its line, 120 wide and 60 high; no
\* other line gives a Barcode.
C29_BarcodePerSymbol ==
  LET starts   == SelectSeq(SplitLines(seen.file), SymbolStart)
      barcodes == SelectSeq(Decoded, IsBarcode)
  IN  /\ Len(barcodes) = Len(starts)
      /\ \A k \in 1..Len(barcodes) :
           /\ barcodes[k].width = 120 /\ barcodes[k].height = 60
           /\ k <= Len(starts) => barcodes[k].barcode_type = SymbolCode(starts[k])

\* a position command the decoder takes: ^FO and at least two runs of
\* digits, read as x and y
WellFormedPosition(line) ==
  StartsWith(Strip(line), <<"^", "F", "O">>) /\ Len(DigitRuns(Strip(line))) >= 2

\* a font command the decoder takes: ^A, one capital or digit, ",N," and a
\* run of digits
WellFormedFont(line) == FontMatch(Strip(line))

\* the position set by the last well-formed position command before line i
PositionBefore(lines, i) ==
  LET set == {j \in 1..(i - 1) : WellFormedPosition(lines[j])}
      runs == DigitRuns(Strip(lines[Highest(set)]))
  IN  IF set = {} THEN <<0, 0>> ELSE <<NatValue(runs[1]), NatValue(runs[2])>>

\* the font set by the last well-formed font command before line i
FontBefore(lines, i) ==
  LET set == {j \in 1..(i - 1) : WellFormedFont(lines[j])}
      l   == Strip(lines[Highest(set)])
  IN  IF set = {} THEN <<"A", "30">>
      ELSE <<l[3], Str(LeadingRun(SubSeq(l, 7, Len(l)), Digits))>>

\* what the decoder makes of the first i lines
UpTo(lines, i) == parse_zpl_file(Unlines(SubSeq(lines, 1, i)))

\* C30: line by line, the decoder adds at most one object; the object added
\* at line i lies at the position of the last well-formed position command
\* before i, or at (0,0); if it is a Text it has the font of the last
\* well-formed font command before i, or font A size 30; a line adds a Text
\* exactly when it is a field-data line; position and font commands that are
\* not well formed set nothing.
C30_RunningContext ==
  LET lines == SplitLines(seen.file)
  IN  /\ Decoded = UpTo(lines, Len(lines))
      /\ \A i \in 1..Len(lines) :
           LET before == UpTo(lines, i - 1)
               after  == UpTo(lines, i)
               added  == Len(after) > Len(before)
               o      == after[Len(after)]
           IN  /\ Len(after) - Len(before) \in {0, 1}
               /\ SubSeq(after, 1, Len(before)) = before
               /\ added => <<o.x, o.y>> = PositionBefore(lines, i)
               /\ added /\ o.obj_type = "text" =>
                    <<o.font_type, o.font_size>> = FontBefore(lines, i)
               /\ StartsWith(Strip(lines[i]), <<"^", "F", "D">>)
                    <=> (added /\ o.obj_type = "text")

\* a position command, a position command with one number and a field-data
\* line: the Text lies at the position of the first command
C30_Witness ==
  /\ LastOp = "import_zpl_file"
  /\ seen.file = Unlines(<<DecoderLines[1], DecoderLines[3], DecoderLines[6]>>)
  /\ OneOf(Decoded, "text")
  /\ <<Decoded[1].x, Decoded[1].y>> = <<10, 20>>
  /\ <<Decoded[1].font_type, Decoded[1].font_size>> = <<"A", "30">>

\* ------------------------------------------------ invariants of the editor
\* C31: after any edit (a panel Entry, the properties dialog, the diameter
\* or the bar height Entry, add, paste, import) every object of the Scene has
\* a width and a height that are not negative
C31_Geometry ==
  \A i \in 1..Len(objects) : objects[i].width >= 0 /\ objects[i].height >= 0

\* C32: the clipboard slot holds at most one object; only a copy made with an
\* object selected changes it, and then to that object with its flag cleared;
\* once filled it is never empty again; and whatever happens to the source
\* after the copy, the slot still holds the object as it was when copied, so
\* that a later paste produces it.
C32_ClipboardSlot ==
  [][/\ Len(clipboard_object') <= 1
     /\ clipboard_object' # clipboard_object
          => /\ Step("copy_object")
             /\ selected_object # None
             /\ clipboard_object' = <<[objects[selected_object] EXCEPT !.selected = FALSE]>>
     /\ clipboard_object # <<>> => clipboard_object' # <<>>
     /\ clipboard_object' # <<>>
          => /\ seen'.copied # <<>>
             /\ clipboard_object'[1] = [seen'.copied[1] EXCEPT !.selected = FALSE]
    ]_vars

\* an object was copied, its source was then edited, moved or deleted, and a
\* paste produced the object as it was when copied
C32_Witness ==
  /\ LastOp = "paste_object"
  /\ Len(hist) >= 4
  /\ hist[Len(hist) - 2] = "copy_object"
  /\ hist[Len(hist) - 1] \in {"update_value", "on_canvas_drag", "delete_selected",
                              "combobox_value"}
  /\ seen.copied # <<>>
  /\ \A i \in 1..(Len(objects) - 1) : [objects[i] EXCEPT !.selected = TRUE] # seen.copied[1]
  /\ Last(objects) = [PasteClone(seen.copied[1], next_id) EXCEPT !.selected = TRUE]

\* C33: the position a drag delta gives an object is a fixed point of the
\* grid snap (snapping it again returns it), each of its coordinates is a
\* multiple of the grid size when snapping is enabled, and it is the position
\* plus the delta when snapping is disabled; a further delta of zero leaves a
\* snapped position where it is.
C33_SnapIdempotent ==
  [][(Step("on_canvas_drag") /\ drag_data.item \in 1..Len(objects))
       => LET ls == label_settings
              g  == ls.grid_size
              o  == objects[drag_data.item]
              dx == drag_data'.x - drag_data.x
              dy == drag_data'.y - drag_data.y
              p  == <<objects'[drag_data.item].x, objects'[drag_data.item].y>>
          IN  /\ snap_to_grid(ls, p[1], p[2]) = p
              /\ ls.snap_to_grid => p[1] % g = 0 /\ p[2] % g = 0
              /\ ~ls.snap_to_grid => p = <<o.x + dx, o.y + dy>>
              /\ (LastOp = "on_canvas_drag" /\ dx = 0 /\ dy = 0) => p = <<o.x, o.y>>
    ]_vars

\* an object at x = 6 on a grid of 4 (halfway between 4 and 8) was snapped to
\* 8 by a first delta of zero and stayed there at a second
C33_Witness ==
  /\ EndsWith(<<"on_canvas_click", "on_canvas_drag", "on_canvas_drag">>)
  /\ label_settings.snap_to_grid
  /\ label_settings.grid_size = 4
  /\ Last(undo_stack)[1].x = 6
  /\ seen.press # <<>> /\ seen.press[1].x = 6
  /\ drag_data.x = 6
  /\ objects[1].x = 8

\* C34: an import whose file decodes to at least one object, made while no
\* panel edit awaits its focus loss and no drag gesture is in progress, puts
\* the decoded objects after the existing ones or in their place, in decoder
\* order, clears the selected object and commits exactly one snapshot, and
\* the snapshot a single undo then restores is the Scene as it was before the
\* import (flags aside); an import that is cancelled or decodes to nothing
\* changes neither the Scene nor the stacks.
C34_Import ==
  [][((Step("import_zpl_file") \/ Step("import_zpl_file_none"))
        /\ focus_entry = "none" /\ drag_data.item = None)
       => IF Step("import_zpl_file")
          THEN /\ seen'.parsed # <<>>
               /\ objects' \in {redraw_objects(objects \o seen'.parsed),
                                redraw_objects(seen'.parsed)}
               /\ selected_object' = None
               /\ undo_stack' = Committed(undo_stack, objects')
               /\ redo_stack' = <<>>
               /\ commits' = commits + 1
               /\ Unflagged(RestoreScene(UndoTarget(undo_stack'))) = Unflagged(objects)
          ELSE UNCHANGED <<objects, selected_object, undo_stack, redo_stack>>
    ]_vars

\* C35: whenever no drag gesture is in progress and no panel edit awaits its
\* focus loss, the objects of the Scene, flags aside, are those of the top
\* snapshot of the undo stack (so that an undo made then reverts exactly the
\* effect of the most recent commit).
C35_SceneIsTopSnapshot ==
  (drag_data.item = None /\ focus_entry = "none")
    => Unflagged(objects) = Unflagged(Last(undo_stack))

\* an undo, redo, delete, clear or new project ran since the last press on an
\* object
Interfered ==
  \E i \in (seen.at + 1)..Len(hist) :
    hist[i] \in {"undo", "redo", "delete_selected", "clear_all", "new_project"}

\* C36: the object a drag gesture captured at the press is an object of the
\* Scene until the release, whatever handlers run in between, so that every
\* delta moves an object of the Scene; and a release that follows an undo,
\* redo, delete, clear or new project issued since the press commits a
\* snapshot only for a Scene that differs from the top snapshot.
C36_DragTarget ==
  [][/\ drag_data'.item \in 0..Len(objects')
     /\ (Step("on_canvas_drag") /\ ~label_settings.snap_to_grid
           /\ <<drag_data'.x, drag_data'.y>> # <<drag_data.x, drag_data.y>>)
          => objects' # objects
     /\ (Step("on_canvas_release") /\ Interfered /\ undo_stack' # undo_stack)
          => Unflagged(objects) # Unflagged(Last(undo_stack))
    ]_vars

\* C37: in every reachable state the selected object is None or an object of
\* the Scene, and no delete or reorder has ended in an exception for want of
\* its target.
C37_SelectionInScene ==
  /\ selected_object \in 0..Len(objects)
  /\ \A i \in 1..Len(hist) :
       hist[i] \notin {"delete_selected_raise", "bring_forward_raise",
                       "send_backward_raise"}

\* the number of snapshots the two stacks hold together
Held(us, rs) == Len(us) + Len(rs)

\* C38: the undo stack and the redo stack never hold more than 50 snapshots
\* together, so the redo stack never more than 49; an undo or a redo leaves
\* that number as it is, and unless it is a no-op (one snapshot left to undo,
\* nothing to redo) it takes exactly the top snapshot of one stack and puts
\* it on top of the other.
C38_CombinedBound ==
  [][/\ Held(undo_stack', redo_stack') <= max_undo_steps
     /\ Len(redo_stack') <= max_undo_steps - 1
     /\ (Step("undo") \/ Step("redo"))
          => /\ Held(undo_stack', redo_stack') = Held(undo_stack, redo_stack)
             /\ \/ /\ UNCHANGED <<undo_stack, redo_stack>>
                   /\ IF Step("undo") THEN Len(undo_stack) <= 1 ELSE redo_stack = <<>>
                \/ /\ Step("undo")
                   /\ undo_stack' = Front(undo_stack)
                   /\ redo_stack' = Append(redo_stack, Last(undo_stack))
                \/ /\ Step("redo")
                   /\ redo_stack' = Front(redo_stack)
                   /\ undo_stack' = Append(undo_stack, Last(redo_stack))
    ]_vars

\* the stacks hold 50 snapshots together, one of them moved to the redo
\* stack by the undo that just ran on a full undo stack
C38_Witness ==
  /\ LastOp = "undo"
  /\ Len(undo_stack) = max_undo_steps - 1
  /\ Len(redo_stack) = 1

====
